---- MODULE Spec2Model ----
(***************************************************************************)
(* A model of the Spektr query execution engine (package engine): the      *)
(* RecordView variants, ApplyFilters, GroupAndAggregate, the text/growth/  *)
(* table/chart builders and the Executor (Execute, executeRatio,           *)
(* ResolvePlaceholders).                                                    *)
(*                                                                         *)
(* Conventions.                                                            *)
(*  - float64 values are exact rationals [n |-> numerator, d |-> denom>0]  *)
(*    in lowest terms; the measures of the input records are integers.     *)
(*  - a Go string is a TLA+ string; a text that the code edits (a reply    *)
(*    template and what is substituted into it) is a sequence of tokens,   *)
(*    the Go string being their concatenation.  A space is always a token  *)
(*    of its own, so that the double-space and trailing-character edits of *)
(*    stripUnresolvedPlaceholders act on tokens as they act on characters. *)
(*  - indices are 1-based: index i of the model is index i-1 of the code.  *)
(*  - a nil pointer or nil interface is the record Nil.                    *)
(*  - a Go map is a function; a key that is absent is outside its DOMAIN.  *)
(*  - where the code's outcome depends on map iteration order or on the    *)
(*    order sort.Slice leaves equal elements in, the model has one         *)
(*    outcome per order (a set of possible results).                       *)
(***************************************************************************)
EXTENDS Integers, Sequences, FiniteSets, TLC

VARIABLES
    view,             \* the RecordView handed to the call
    spec,             \* the QuerySpec handed to the call
    cfg,              \* the config built by applyOptions
    pc,               \* position of the call
    filtered,         \* Execute's local `filtered`
    displayUnit,      \* Execute's local `displayUnit`
    needsConversion,  \* Execute's local `needsConversion`
    groups,           \* Execute's local `groups`
    result,           \* the *Result Execute returns
    ret,              \* the value returned by a directly called function
    heap,             \* the arrays, maps and structs reached through pointers
    call,             \* arguments and locals of a call into package schema or translator
    js                \* the JavaScript wrapper: module variables, promises, job queue

vars == <<view, spec, cfg, pc, filtered, displayUnit, needsConversion, groups, result,
          ret, heap, call, js>>

Nil == [nil |-> TRUE]

(***************************************************************************)
(* Bounds of the model.                                                    *)
(***************************************************************************)
MaxViewLen == 2
MaxGrowthLen == 3

(***************************************************************************)
(* float64 as exact rationals.                                             *)
(***************************************************************************)
Abs(x) == IF x < 0 THEN -x ELSE x

RECURSIVE GCD(_, _)
GCD(a, b) == IF b = 0 THEN a ELSE GCD(b, a % b)

Rat(n, d) ==
    LET g == GCD(Abs(n), Abs(d))
        s == IF d < 0 THEN -1 ELSE 1
    IN  [n |-> (s * n) \div g, d |-> (s * d) \div g]

FromInt(x) == [n |-> x, d |-> 1]
Zero == FromInt(0)

RAdd(a, b) == Rat(a.n * b.d + b.n * a.d, a.d * b.d)
RSub(a, b) == Rat(a.n * b.d - b.n * a.d, a.d * b.d)
RMul(a, b) == Rat(a.n * b.n, a.d * b.d)
RDiv(a, b) == Rat(a.n * b.d, a.d * b.n)
RLt(a, b) == a.n * b.d < b.n * a.d
RGt(a, b) == RLt(b, a)

(***************************************************************************)
(* strings.ToLower on the strings of the model.                            *)
(***************************************************************************)
ToLower(s) ==
    CASE s = "Rent" -> "rent"
      [] s = "RENT" -> "rent"
      [] s = "Food" -> "food"
      [] s = "FOOD" -> "food"
      [] s = "SG"   -> "sg"
      [] s = "USD"  -> "usd"
      [] s = "SGD"  -> "sgd"
      [] s = "EUR"  -> "eur"
      [] s = "Jan-2026" -> "jan-2026"
      [] s = "Feb-2026" -> "feb-2026"
      [] s = "Mar-2026" -> "mar-2026"
      [] s = "Dec-2025" -> "dec-2025"
      [] s = "Q1" -> "q1"
      [] s = "Q2" -> "q2"
      [] s \in {"TRUE", "True"} -> "true"
      [] s \in {"FALSE", "False"} -> "false"
      [] s \in {"YES", "Yes"} -> "yes"
      [] s \in {"NO", "No"} -> "no"
      [] s = "Field" -> "field"
      [] s = "Category" -> "category"
      [] s = "Region" -> "region"
      [] s = "Issue Key" -> "issue key"
      [] OTHER -> s

(***************************************************************************)
(* RecordView and its implementations.                                     *)
(***************************************************************************)
\* The key of sequence `order` that comes first among the keys of S.
RECURSIVE FirstOf(_, _, _)
FirstOf(order, S, k) ==
    IF order[k] \in S THEN order[k] ELSE FirstOf(order, S, k + 1)

\* The keys of S in the order in which `order` lists them.
RECURSIVE InOrder(_, _)
InOrder(order, S) ==
    IF S = {} THEN <<>>
    ELSE LET x == FirstOf(order, S, 1) IN <<x>> \o InOrder(order, S \ {x})

\* cacheKeys over records i..n: the keys not seen yet are appended record by
\* record, those of one record in the order `order` of its map's range.
RECURSIVE CacheKeys(_, _, _, _, _)
CacheKeys(records, field, order, i, seen) ==
    IF i > Len(records) THEN <<>>
    ELSE LET new == (DOMAIN records[i][field]) \ seen
         IN  InOrder(order, new) \o CacheKeys(records, field, order, i + 1, seen \cup new)

\* The order in which the views of the model range over a record's keys.
DimKeyOrder == <<"field", "location", "month", "currency">>
MeasureKeyOrder == <<"amount", "qty">>

NewSliceView(records) ==
    [kind |-> "slice", records |-> records,
     dimKeys |-> CacheKeys(records, "Dimensions", DimKeyOrder, 1, {}),
     mesKeys |-> CacheKeys(records, "Measures", MeasureKeyOrder, 1, {})]

newSubView(parent, indices) == [kind |-> "sub", parent |-> parent, indices |-> indices]

newConcatView(a, b) == [kind |-> "concat", a |-> a, b |-> b]

newCurrencyView(parent, measure, dimension, baseCurrency, rates) ==
    [kind |-> "currency", parent |-> parent, measure |-> measure,
     dimension |-> dimension, baseCurrency |-> baseCurrency, rates |-> rates]

RECURSIVE ViewLen(_)
ViewLen(v) ==
    CASE v.kind = "slice"    -> Len(v.records)
      [] v.kind = "sub"      -> Len(v.indices)
      [] v.kind = "concat"   -> ViewLen(v.a) + ViewLen(v.b)
      [] v.kind = "currency" -> ViewLen(v.parent)

\* Go's map read: the zero value for an absent key.
MapStr(m, key) == IF key \in DOMAIN m THEN m[key] ELSE ""
MapNum(m, key) == IF key \in DOMAIN m THEN FromInt(m[key]) ELSE Zero

RECURSIVE Dimension(_, _, _)
CurrencyViewDimension(v, i, key) ==
    IF key = v.dimension
    THEN LET orig == Dimension(v.parent, i, key)
         IN  IF orig # v.baseCurrency /\ orig \in DOMAIN v.rates
             THEN v.baseCurrency
             ELSE orig
    ELSE Dimension(v.parent, i, key)

Dimension(v, i, key) ==
    CASE v.kind = "slice" ->
            IF i < 1 \/ i > Len(v.records) THEN ""
            ELSE MapStr(v.records[i].Dimensions, key)
      [] v.kind = "sub" ->
            IF i < 1 \/ i > Len(v.indices) THEN ""
            ELSE Dimension(v.parent, v.indices[i], key)
      [] v.kind = "concat" ->
            IF i <= ViewLen(v.a) THEN Dimension(v.a, i, key)
            ELSE Dimension(v.b, i - ViewLen(v.a), key)
      [] v.kind = "currency" -> CurrencyViewDimension(v, i, key)

RECURSIVE Measure(_, _, _)
\* Mutant of CurrencyViewMeasure: the base-currency test is left out.
CurrencyViewMeasure_NoBaseTest(v, i, key) ==
    LET val == Measure(v.parent, i, key)
        currency == Dimension(v.parent, i, v.dimension)
    IN  IF key = v.measure /\ currency \in DOMAIN v.rates /\ v.rates[currency] > 0
        THEN RMul(val, FromInt(v.rates[currency]))
        ELSE val

CurrencyViewMeasure(v, i, key) ==
    LET val == Measure(v.parent, i, key)
    IN  IF key = v.measure
        THEN LET currency == Dimension(v.parent, i, v.dimension)
             IN  IF currency # v.baseCurrency
                    /\ currency \in DOMAIN v.rates
                    /\ v.rates[currency] > 0
                 THEN RMul(val, FromInt(v.rates[currency]))
                 ELSE val
        ELSE val

Measure(v, i, key) ==
    CASE v.kind = "slice" ->
            IF i < 1 \/ i > Len(v.records) THEN Zero
            ELSE MapNum(v.records[i].Measures, key)
      [] v.kind = "sub" ->
            IF i < 1 \/ i > Len(v.indices) THEN Zero
            ELSE Measure(v.parent, v.indices[i], key)
      [] v.kind = "concat" ->
            IF i <= ViewLen(v.a) THEN Measure(v.a, i, key)
            ELSE Measure(v.b, i - ViewLen(v.a), key)
      [] v.kind = "currency" -> CurrencyViewMeasure(v, i, key)

(***************************************************************************)
(* Filters.                                                                *)
(***************************************************************************)
IsEmpty(f) == \A d \in DOMAIN f.Dimensions : Len(f.Dimensions[d]) = 0

toLowerSet(items) == {ToLower(items[k]) : k \in 1..Len(items)}

\* The lookup sets ApplyFilters builds: one per dimension with a non-empty list.
FilterSets(f) ==
    [d \in {x \in DOMAIN f.Dimensions : Len(f.Dimensions[x]) > 0} |->
        toLowerSet(f.Dimensions[d])]

\* Mutant of Passes: the record's value is looked up without lowercasing it.
Passes_CaseSensitive(v, i, sets) == \A d \in DOMAIN sets : Dimension(v, i, d) \in sets[d]

\* The inner loop: the record passes if it matches all dimension filters.
Passes(v, i, sets) == \A d \in DOMAIN sets : ToLower(Dimension(v, i, d)) \in sets[d]

\* The single pass over the indices i..n, appending those that pass.
RECURSIVE FilterIndices(_, _, _)
FilterIndices(v, sets, i) ==
    IF i > ViewLen(v) THEN <<>>
    ELSE (IF Passes(v, i, sets) THEN <<i>> ELSE <<>>) \o FilterIndices(v, sets, i + 1)

\* ApplyFilters building a lookup set for every dimension of the filter, an
\* empty allow-list included, so that an empty list admits no record.
ApplyFilters_EmptyListRejects(v, f) ==
    IF DOMAIN f.Dimensions = {} THEN v
    ELSE newSubView(v, FilterIndices(v, [d \in DOMAIN f.Dimensions |->
                                            toLowerSet(f.Dimensions[d])], 1))

ApplyFilters(v, f) ==
    IF IsEmpty(f) THEN v
    ELSE LET sets == FilterSets(f)
         IN  IF DOMAIN sets = {} THEN v
             ELSE newSubView(v, FilterIndices(v, sets, 1))

(***************************************************************************)
(* Aggregators: measures over a view.                                      *)
(***************************************************************************)
RECURSIVE SumFrom(_, _, _)
SumFrom(v, measure, i) ==
    IF i > ViewLen(v) THEN Zero
    ELSE RAdd(Measure(v, i, measure), SumFrom(v, measure, i + 1))

SumMeasure(v, measure) == SumFrom(v, measure, 1)

AvgMeasure(v, measure) ==
    IF ViewLen(v) = 0 THEN Zero
    ELSE RDiv(SumMeasure(v, measure), FromInt(ViewLen(v)))

\* The loop of MaxMeasure from index i on, m the largest value so far.
RECURSIVE MaxFrom(_, _, _, _)
MaxFrom(v, measure, i, m) ==
    IF i > ViewLen(v) THEN m
    ELSE LET x == Measure(v, i, measure)
         IN  MaxFrom(v, measure, i + 1, IF RGt(x, m) THEN x ELSE m)

MaxMeasure(v, measure) ==
    IF ViewLen(v) = 0 THEN Zero
    ELSE MaxFrom(v, measure, 2, Measure(v, 1, measure))

RECURSIVE MinFrom(_, _, _, _)
MinFrom(v, measure, i, m) ==
    IF i > ViewLen(v) THEN m
    ELSE LET x == Measure(v, i, measure)
         IN  MinFrom(v, measure, i + 1, IF RLt(x, m) THEN x ELSE m)

MinMeasure(v, measure) ==
    IF ViewLen(v) = 0 THEN Zero
    ELSE MinFrom(v, measure, 2, Measure(v, 1, measure))

(***************************************************************************)
(* time.Parse on the strings of the model.                                 *)
(***************************************************************************)
\* ParseMonthOrder: "Jan-2026" -> 202601; 0 when time.Parse("Jan-2006") fails.
ParseMonthOrder(monthStr) ==
    CASE monthStr = "Jan-2026" -> 202601
      [] monthStr = "Feb-2026" -> 202602
      [] monthStr = "Mar-2026" -> 202603
      [] monthStr = "Dec-2025" -> 202512
      [] OTHER -> 0

parseSortableDate(key) ==
    IF ParseMonthOrder(key) > 0 THEN ParseMonthOrder(key)
    ELSE CASE key = "2026" -> 202600
           [] key = "2025" -> 202500
           [] OTHER -> 0

\* strings.Split(month, "-"): its second part when there are exactly two.
SplitYear(month) ==
    CASE month = "Jan-2026" -> <<"Jan", "2026">>
      [] month = "Feb-2026" -> <<"Feb", "2026">>
      [] month = "Mar-2026" -> <<"Mar", "2026">>
      [] month = "Dec-2025" -> <<"Dec", "2025">>
      [] OTHER -> <<month>>

getDimensionValue(v, i, dimension) ==
    IF dimension = "year" /\ Len(SplitYear(Dimension(v, i, "month"))) = 2
    THEN SplitYear(Dimension(v, i, "month"))[2]
    ELSE Dimension(v, i, dimension)

(***************************************************************************)
(* Grouping.                                                               *)
(***************************************************************************)
newGroup(key, v) ==
    [Key |-> key, Label |-> key, Value |-> Zero, Count |-> 0,
     SubGroups |-> <<>>, View |-> v]

InSeq(s, x) == \E k \in 1..Len(s) : s[k] = x

\* The keys in order of first appearance (the slice `order`).
RECURSIVE GroupOrder(_, _, _, _)
GroupOrder(v, dimension, i, order) ==
    IF i > ViewLen(v) THEN order
    ELSE LET key == getDimensionValue(v, i, dimension)
         IN  GroupOrder(v, dimension, i + 1,
                        IF InSeq(order, key) THEN order ELSE Append(order, key))

\* grouped[key]: the indices carrying the key, in view order.
RECURSIVE GroupedIndices(_, _, _, _)
GroupedIndices(v, dimension, key, i) ==
    IF i > ViewLen(v) THEN <<>>
    ELSE (IF getDimensionValue(v, i, dimension) = key THEN <<i>> ELSE <<>>)
         \o GroupedIndices(v, dimension, key, i + 1)

\* groupBySingle emitting the groups in the reverse of the order in which
\* their keys were first seen.
groupBySingle_ReverseOrder(v, dimension) ==
    LET order == GroupOrder(v, dimension, 1, <<>>)
        n     == Len(order)
    IN  [k \in 1..n |->
            newGroup(order[n + 1 - k],
                     newSubView(v, GroupedIndices(v, dimension, order[n + 1 - k], 1)))]

groupBySingle(v, dimension) ==
    LET order == GroupOrder(v, dimension, 1, <<>>)
    IN  [k \in 1..Len(order) |->
            newGroup(order[k], newSubView(v, GroupedIndices(v, dimension, order[k], 1)))]

groupByMulti(v, dimensions) ==
    IF Len(dimensions) < 2 THEN groupBySingle(v, dimensions[1])
    ELSE LET primaryGroups == groupBySingle(v, dimensions[1])
         IN  [k \in 1..Len(primaryGroups) |->
                [primaryGroups[k] EXCEPT
                    !.SubGroups = groupBySingle(primaryGroups[k].View, dimensions[2])]]

(***************************************************************************)
(* Aggregation.                                                            *)
(***************************************************************************)
\* Mutant of aggregateGroup: the count is set only by the "count" aggregation.
aggregateGroup_CountOnlyForCount(group, measure, aggregation) ==
    IF aggregation = "count"
    THEN [group EXCEPT !.Count = ViewLen(group.View),
                       !.Value = FromInt(ViewLen(group.View))]
    ELSE [group EXCEPT !.Value = SumMeasure(group.View, measure)]

\* aggregateGroup without the pass-through case: "none" falls to the default
\* and sums.
aggregateGroup_NoneSums(group, measure, aggregation) ==
    LET count == ViewLen(group.View)
        g     == [group EXCEPT !.Count = count]
    IN  IF count = 0 THEN g
        ELSE CASE aggregation = "count" -> [g EXCEPT !.Value = FromInt(count)]
               [] aggregation = "avg"   -> [g EXCEPT !.Value = AvgMeasure(g.View, measure)]
               [] aggregation = "max"   -> [g EXCEPT !.Value = MaxMeasure(g.View, measure)]
               [] aggregation = "min"   -> [g EXCEPT !.Value = MinMeasure(g.View, measure)]
               [] OTHER                 -> [g EXCEPT !.Value = SumMeasure(g.View, measure)]

aggregateGroup(group, measure, aggregation) ==
    LET count == ViewLen(group.View)
        g     == [group EXCEPT !.Count = count]
    IN  IF count = 0 THEN g
        ELSE CASE aggregation = "sum"   -> [g EXCEPT !.Value = SumMeasure(g.View, measure)]
               [] aggregation = "count" -> [g EXCEPT !.Value = FromInt(count)]
               [] aggregation = "avg"   -> [g EXCEPT !.Value = AvgMeasure(g.View, measure)]
               [] aggregation = "max"   -> [g EXCEPT !.Value = MaxMeasure(g.View, measure)]
               [] aggregation = "min"   -> [g EXCEPT !.Value = MinMeasure(g.View, measure)]
               [] aggregation = "list"  -> [g EXCEPT !.Value = SumMeasure(g.View, measure)]
               [] aggregation = "none"  -> g
               [] OTHER                 -> [g EXCEPT !.Value = SumMeasure(g.View, measure)]

\* Step 2 of GroupAndAggregate: every group, then every sub-group of it.
AggregateAll(gs, measure, aggregation) ==
    [k \in 1..Len(gs) |->
        LET g == aggregateGroup(gs[k], measure, aggregation)
        IN  [g EXCEPT !.SubGroups =
                [j \in 1..Len(g.SubGroups) |->
                    aggregateGroup(g.SubGroups[j], measure, aggregation)]]]

(***************************************************************************)
(* Sorting.                                                                *)
(***************************************************************************)
\* strings.ToLower(a) < strings.ToLower(b) on the group keys of the model.
KeyRank(key) ==
    CASE ToLower(key) = ""     -> 0
      [] ToLower(key) = "food" -> 1
      [] ToLower(key) = "rent" -> 2
      [] OTHER -> 3

SortModes ==
    {"value_desc", "amount_desc", "value_asc", "amount_asc", "chronological",
     "date_asc", "reverse_chronological", "date_desc", "label_asc", "alpha_asc",
     "label_desc"}

\* The less function SortGroups hands to sort.Slice for a recognized mode.
SortLess(sortBy, a, b) ==
    CASE sortBy \in {"value_desc", "amount_desc"} -> RGt(a.Value, b.Value)
      [] sortBy \in {"value_asc", "amount_asc"}   -> RLt(a.Value, b.Value)
      [] sortBy \in {"chronological", "date_asc"} ->
            parseSortableDate(a.Key) < parseSortableDate(b.Key)
      [] sortBy \in {"reverse_chronological", "date_desc"} ->
            parseSortableDate(a.Key) > parseSortableDate(b.Key)
      [] sortBy \in {"label_asc", "alpha_asc"} -> KeyRank(a.Key) < KeyRank(b.Key)
      [] sortBy = "label_desc" -> KeyRank(a.Key) > KeyRank(b.Key)

\* sort.Slice is not stable: any ordering of the slice that is sorted by the
\* less function may result.
SortGroups(gs, sortBy) ==
    IF sortBy \notin SortModes THEN {gs}
    ELSE { s \in { [k \in 1..Len(gs) |-> gs[p[k]]] : p \in Permutations(1..Len(gs)) } :
             \A k \in 1..(Len(s) - 1) : ~SortLess(sortBy, s[k + 1], s[k]) }

LimitGroups(gs, limit) ==
    IF limit > 0 /\ Len(gs) > limit THEN SubSeq(gs, 1, limit) ELSE gs

\* GroupAndAggregate with steps 3 and 4 exchanged: the first `limit` groups
\* in grouping order are kept and then sorted.
GroupAndAggregate_LimitThenSort(v, groupBy, measure, aggregation, sortBy, limit) ==
    IF ViewLen(v) = 0 THEN {<<>>}
    ELSE LET grouped ==
                 IF Len(groupBy) = 0
                 THEN << [Key |-> "all", Label |-> "Total", Value |-> Zero,
                          Count |-> 0, SubGroups |-> <<>>, View |-> v] >>
                 ELSE IF Len(groupBy) = 1 THEN groupBySingle(v, groupBy[1])
                 ELSE groupByMulti(v, groupBy)
             aggregated == AggregateAll(grouped, measure, aggregation)
         IN  SortGroups(LimitGroups(aggregated, limit), sortBy)

\* The possible results of GroupAndAggregate (one per order of equal groups).
GroupAndAggregate(v, groupBy, measure, aggregation, sortBy, limit) ==
    IF ViewLen(v) = 0 THEN {<<>>}
    ELSE LET grouped ==
                 IF Len(groupBy) = 0
                 THEN << [Key |-> "all", Label |-> "Total", Value |-> Zero,
                          Count |-> 0, SubGroups |-> <<>>, View |-> v] >>
                 ELSE IF Len(groupBy) = 1 THEN groupBySingle(v, groupBy[1])
                 ELSE groupByMulti(v, groupBy)
             aggregated == AggregateAll(grouped, measure, aggregation)
         IN  { LimitGroups(s, limit) : s \in SortGroups(aggregated, sortBy) }

(***************************************************************************)
(* Formatting.  A formatted value is a text: a sequence of tokens.         *)
(***************************************************************************)
Pad2(x) == IF x < 10 THEN "0" \o ToString(x) ELSE ToString(x)
Pad3(x) == IF x < 10 THEN "00" \o ToString(x)
           ELSE IF x < 100 THEN "0" \o ToString(x) ELSE ToString(x)

\* The integer part with comma separators every three digits.
RECURSIVE Commas(_)
Commas(n) == IF n < 1000 THEN ToString(n)
             ELSE Commas(n \div 1000) \o "," \o Pad3(n % 1000)

FormatCurrency(amount, currency) ==
    LET negative == amount.n < 0
        an       == Abs(amount.n)
        intPart  == an \div amount.d
        \* int64((amount - intPart) * 100 + 0.5)
        decPart  == ((an % amount.d) * 200 + amount.d) \div (2 * amount.d)
        digits   == Commas(intPart) \o "." \o Pad2(decPart)
    IN  IF currency = ""
        THEN (IF negative THEN <<"-">> ELSE <<>>) \o <<" ", digits>>
        ELSE << (IF negative THEN "-" ELSE "") \o currency \o " " \o digits >>

RECURSIVE FormatInt(_)
FormatInt(n) ==
    IF n < 0 THEN "-" \o FormatInt(-n)
    ELSE IF n < 1000 THEN ToString(n)
    ELSE FormatInt(n \div 1000) \o "," \o Pad3(n % 1000)

\* fmt.Sprintf("%.1f", x): one decimal, ties to even.
FormatFixed1(x) ==
    LET an == Abs(x.n)
        q  == (an * 10) \div x.d
        r  == (an * 10) % x.d
        up == (2 * r > x.d) \/ (2 * r = x.d /\ q % 2 = 1)
        t  == IF up THEN q + 1 ELSE q
    IN  (IF x.n < 0 THEN "-" ELSE "") \o ToString(t \div 10) \o "." \o ToString(t % 10)

FormatPercent(x) == FormatFixed1(x) \o "%"

(***************************************************************************)
(* Period helper.                                                          *)
(***************************************************************************)
\* The keys of the map `months` / `monthTotals`: the non-empty month values.
MonthsOf(v) == {Dimension(v, i, "month") : i \in 1..ViewLen(v)} \ {""}

MinOrder(months) ==
    CHOOSE o \in {ParseMonthOrder(m) : m \in months} :
        \A m \in months : o <= ParseMonthOrder(m)

MaxOrder(months) ==
    CHOOSE o \in {ParseMonthOrder(m) : m \in months} :
        \A m \in months : o >= ParseMonthOrder(m)

\* The characters outside ASCII that the code writes, spelled in ASCII.
EnDash == "--"
EmDash == "---"
UpArrow == "^"
DownArrow == "v"
RightArrow == "->"

PeriodRange(earliest, latest) == earliest \o " " \o EnDash \o " " \o latest

\* The possible results of DerivePeriod (one per iteration order of the map).
DerivePeriod(v) ==
    LET months == MonthsOf(v)
    IN  IF ViewLen(v) = 0 THEN {<<"No data">>}
        ELSE IF months = {} THEN {<<"All time">>}
        ELSE IF Cardinality(months) = 1 THEN {<<m>> : m \in months}
        ELSE IF MinOrder(months) = MaxOrder(months)
             \* no month is strictly earlier or later than the first one visited
             THEN {<<PeriodRange(m, m)>> : m \in months}
             ELSE {<<PeriodRange(e, l)>> :
                     e \in {m \in months : ParseMonthOrder(m) = MinOrder(months)},
                     l \in {m \in months : ParseMonthOrder(m) = MaxOrder(months)}}

(***************************************************************************)
(* Text and growth builders.                                               *)
(***************************************************************************)
TextData(value, rawValue, unit, period, count, growth, ratio) ==
    [Value |-> value, RawValue |-> rawValue, Unit |-> unit, Period |-> period,
     Count |-> count, Growth |-> growth, Ratio |-> ratio]

\* monthTotals[month]: the sum of the measure over the records of the month.
RECURSIVE MonthTotalFrom(_, _, _, _)
MonthTotalFrom(v, measure, month, i) ==
    IF i > ViewLen(v) THEN Zero
    ELSE RAdd(IF Dimension(v, i, "month") = month THEN Measure(v, i, measure) ELSE Zero,
              MonthTotalFrom(v, measure, month, i + 1))

MonthTotal(v, measure, month) == MonthTotalFrom(v, measure, month, 1)

Half == [n |-> 1, d |-> 2]
Hundred == FromInt(100)

\* Mutant of GrowthDirection: no deadband around zero.
GrowthDirection_NoDeadband(changePercent) ==
    IF RGt(changePercent, Zero) THEN "increased"
    ELSE IF RLt(changePercent, Zero) THEN "decreased"
    ELSE "unchanged"

GrowthDirection(changePercent) ==
    IF RGt(changePercent, Half) THEN "increased"
    ELSE IF RLt(changePercent, RSub(Zero, Half)) THEN "decreased"
    ELSE "unchanged"

\* The growth of `latest` over `earliest`, two entries of the sorted slice.
GrowthBetween(v, measure, unit, earliest, latest) ==
    LET earliestTotal == MonthTotal(v, measure, earliest)
        latestTotal   == MonthTotal(v, measure, latest)
        changeAmount  == RSub(latestTotal, earliestTotal)
        changePercent == IF earliestTotal # Zero
                         THEN RMul(RDiv(changeAmount, earliestTotal), Hundred)
                         ELSE Zero
        direction     == GrowthDirection(changePercent)
        absPercent    == IF RLt(changePercent, Zero) THEN RSub(Zero, changePercent)
                         ELSE changePercent
        displayValue  == CASE direction = "increased" -> <<UpArrow \o " " \o FormatPercent(absPercent)>>
                           [] direction = "decreased" -> <<DownArrow \o " " \o FormatPercent(absPercent)>>
                           [] OTHER -> <<RightArrow \o " No change">>
    IN  TextData(displayValue, changePercent, unit, <<PeriodRange(earliest, latest)>>,
                 ViewLen(v),
                 [EarliestValue |-> earliestTotal, LatestValue |-> latestTotal,
                  EarliestPeriod |-> <<earliest>>, LatestPeriod |-> <<latest>>,
                  ChangeAmount |-> changeAmount, ChangePercent |-> changePercent,
                  Direction |-> direction],
                 Nil)

\* Mutant of GrowthInsufficient: the change is taken against a zero start.
GrowthInsufficient_FromZero(v, measure, unit, period) ==
    LET total == SumMeasure(v, measure)
    IN  TextData(FormatCurrency(total, unit), total, unit, period, ViewLen(v),
                 [EarliestValue |-> Zero, LatestValue |-> total,
                  EarliestPeriod |-> period, LatestPeriod |-> period,
                  ChangeAmount |-> total, ChangePercent |-> Zero,
                  Direction |-> "insufficient data"],
                 Nil)

\* Fewer than two distinct months.
GrowthInsufficient(v, measure, unit, period) ==
    LET total == SumMeasure(v, measure)
    IN  TextData(FormatCurrency(total, unit), total, unit, period, ViewLen(v),
                 [EarliestValue |-> total, LatestValue |-> total,
                  EarliestPeriod |-> period, LatestPeriod |-> period,
                  ChangeAmount |-> Zero, ChangePercent |-> Zero,
                  Direction |-> "insufficient data"],
                 Nil)

\* The possible results of BuildGrowthText: entries[0] is any month of the
\* smallest order, entries[len-1] any other month of the largest order.
BuildGrowthText(v, measure, unit) ==
    LET months == MonthsOf(v)
    IN  IF ViewLen(v) = 0
        THEN {TextData(<<"No data">>, Zero, unit, <<"No data">>, 0, Nil, Nil)}
        ELSE IF Cardinality(months) < 2
        THEN {GrowthInsufficient(v, measure, unit, p) : p \in DerivePeriod(v)}
        ELSE {GrowthBetween(v, measure, unit, e, l) :
                <<e, l>> \in {x \in months \X months :
                                /\ x[1] # x[2]
                                /\ ParseMonthOrder(x[1]) = MinOrder(months)
                                /\ ParseMonthOrder(x[2]) = MaxOrder(months)}}

\* The possible results of BuildText.
BuildText(q, gs, v, measure, unit) ==
    IF ViewLen(v) = 0
    THEN {TextData(<<"0">>, Zero, unit, p, 0, Nil, Nil) : p \in DerivePeriod(v)}
    ELSE IF q.Aggregation = "growth" THEN BuildGrowthText(v, measure, unit)
    ELSE LET value == CASE q.Aggregation = "sum"   -> SumMeasure(v, measure)
                        [] q.Aggregation = "count" -> FromInt(ViewLen(v))
                        [] q.Aggregation = "avg"   -> AvgMeasure(v, measure)
                        [] q.Aggregation = "max"   -> MaxMeasure(v, measure)
                        [] q.Aggregation = "min"   -> MinMeasure(v, measure)
                        [] OTHER                   -> SumMeasure(v, measure)
             formatted == IF q.Aggregation = "count"
                          THEN <<FormatInt(value.n)>>
                          ELSE FormatCurrency(value, unit)
         IN  {TextData(formatted, value, unit, p, ViewLen(v), Nil, Nil) :
                p \in DerivePeriod(v)}

(***************************************************************************)
(* Labels and rounding.                                                    *)
(***************************************************************************)
\* strings.ToUpper(dimension[:1]) + dimension[1:] on the keys of the model.
LabelForDimension(dimension) ==
    CASE dimension = "field"    -> "Field"
      [] dimension = "location" -> "Location"
      [] dimension = "month"    -> "Month"
      [] dimension = "currency" -> "Currency"
      [] dimension = "year"     -> "Year"
      [] dimension = "amount"   -> "Amount"
      [] dimension = "qty"      -> "Qty"
      [] OTHER -> dimension

LabelForAggregation(aggregation) ==
    CASE aggregation = "sum"   -> "Amount"
      [] aggregation = "count" -> "Count"
      [] aggregation = "avg"   -> "Average"
      [] aggregation = "max"   -> "Maximum"
      [] aggregation = "min"   -> "Minimum"
      [] OTHER -> "Value"

\* math.Round(v*100) / 100: to the nearest hundredth, halves away from zero.
RoundTo2(x) ==
    LET an == Abs(x.n)
        q  == (an * 200 + x.d) \div (2 * x.d)
    IN  Rat(IF x.n < 0 THEN -q ELSE q, 100)

\* fmt.Sprintf("%.2f", x): two decimals, ties to even.
FormatFixed2(x) ==
    LET an == Abs(x.n)
        q  == (an * 100) \div x.d
        r  == (an * 100) % x.d
        up == (2 * r > x.d) \/ (2 * r = x.d /\ q % 2 = 1)
        t  == IF up THEN q + 1 ELSE q
    IN  (IF x.n < 0 THEN "-" ELSE "") \o ToString(t \div 100) \o "." \o Pad2(t % 100)

(***************************************************************************)
(* Table builder.                                                          *)
(***************************************************************************)
\* RecordView.DimensionKeys.
RECURSIVE DimensionKeys(_)
DimensionKeys(v) ==
    CASE v.kind = "slice"    -> v.dimKeys
      [] v.kind = "sub"      -> DimensionKeys(v.parent)
      [] v.kind = "concat"   -> DimensionKeys(v.a)
      [] v.kind = "currency" -> DimensionKeys(v.parent)

Column(key, label, type, align) ==
    [Key |-> key, Label |-> label, Type |-> type, Align |-> align]

buildListTable(q, v, measure, unit) ==
    IF ViewLen(v) = 0
    THEN [Title |-> q.Title, Columns |-> <<>>, Rows |-> <<>>, Summary |-> Nil]
    ELSE LET dimKeys == DimensionKeys(v)
             columns ==
                 [k \in 1..Len(dimKeys) |->
                     Column(dimKeys[k], LabelForDimension(dimKeys[k]), "text", "left")]
                 \o <<Column(measure, LabelForDimension(measure), "number", "right")>>
             rows ==
                 [i \in 1..ViewLen(v) |->
                     [k \in 1..Len(dimKeys) |-> Dimension(v, i, dimKeys[k])]
                     \o <<FormatFixed2(Measure(v, i, measure))>>]
         IN  [Title |-> q.Title, Columns |-> columns, Rows |-> rows,
              Summary |->
                 [Label |-> "Total (" \o ToString(ViewLen(v)) \o " records)",
                  Values |-> (measure :> FormatCurrency(SumMeasure(v, measure), unit))]]

RECURSIVE SumValues(_, _)
SumValues(gs, i) == IF i > Len(gs) THEN Zero ELSE RAdd(gs[i].Value, SumValues(gs, i + 1))

RECURSIVE SumCounts(_, _)
SumCounts(gs, i) == IF i > Len(gs) THEN 0 ELSE gs[i].Count + SumCounts(gs, i + 1)

buildAggregatedTable(q, gs, measure, unit) ==
    IF Len(gs) = 0
    THEN [Title |-> q.Title, Columns |-> <<>>, Rows |-> <<>>, Summary |-> Nil]
    ELSE LET groupLabel == IF Len(q.GroupBy) > 0 THEN LabelForDimension(q.GroupBy[1])
                           ELSE "Group"
             columns == << Column("group", groupLabel, "text", "left"),
                           Column("value", LabelForAggregation(q.Aggregation), "number", "right"),
                           Column("count", "Count", "number", "center") >>
             rows == [k \in 1..Len(gs) |->
                        <<gs[k].Label, FormatFixed2(gs[k].Value), ToString(gs[k].Count)>>]
         IN  [Title |-> q.Title, Columns |-> columns, Rows |-> rows,
              Summary |->
                 [Label |-> "Total",
                  Values |-> [value |-> FormatCurrency(SumValues(gs, 1), unit),
                              count |-> <<ToString(SumCounts(gs, 1))>>]]]

BuildTable(q, gs, v, measure, unit) ==
    IF q.Aggregation = "list" THEN buildListTable(q, v, measure, unit)
    ELSE buildAggregatedTable(q, gs, measure, unit)

(***************************************************************************)
(* Chart builder.                                                          *)
(***************************************************************************)
defaultColors ==
    << "#4F46E5", "#10B981", "#F59E0B", "#EF4444", "#8B5CF6",
       "#06B6D4", "#EC4899", "#84CC16", "#F97316", "#6366F1" >>

\* defaultColors[i % len(defaultColors)] for the 0-based i of the code.
ColorAt(i) == defaultColors[(i % Len(defaultColors)) + 1]

assignColors(count) == [k \in 1..count |-> ColorAt(k - 1)]

buildSingleSeries(gs, seriesName) ==
    << [Name  |-> IF seriesName = "" THEN "Value" ELSE seriesName,
        Data  |-> [k \in 1..Len(gs) |-> [Label |-> gs[k].Label, Value |-> RoundTo2(gs[k].Value)]],
        Color |-> ""] >>

\* The keys of subKeySet.
SubKeySet(gs) ==
    UNION { {gs[k].SubGroups[j].Key : j \in 1..Len(gs[k].SubGroups)} : k \in 1..Len(gs) }

\* sgLookup[key] of group g: the sub-group's value, 0 for an absent key.
SgLookup(g, key) ==
    IF \E j \in 1..Len(g.SubGroups) : g.SubGroups[j].Key = key
    THEN g.SubGroups[CHOOSE j \in 1..Len(g.SubGroups) :
                        /\ g.SubGroups[j].Key = key
                        /\ \A j2 \in (j + 1)..Len(g.SubGroups) : g.SubGroups[j2].Key # key].Value
    ELSE Zero

\* The series for the sub-keys taken in the order subKeys.
MultiSeriesFor(gs, subKeys) ==
    [i \in 1..Len(subKeys) |->
        [Name  |-> subKeys[i],
         Data  |-> [k \in 1..Len(gs) |->
                      [Label |-> gs[k].Label,
                       Value |-> RoundTo2(SgLookup(gs[k], subKeys[i]))]],
         Color |-> ColorAt(i - 1)]]

\* The orders in which a range over a map with key set S may visit the keys.
KeyOrders(S) ==
    { [i \in 1..Cardinality(S) |-> p[i]] :
        p \in {f \in [1..Cardinality(S) -> S] : \A a, b \in 1..Cardinality(S) :
                                                  f[a] = f[b] => a = b} }

\* The possible results of buildMultiSeries: subKeys is filled by a range
\* over the map subKeySet.
buildMultiSeries(gs) == {MultiSeriesFor(gs, o) : o \in KeyOrders(SubKeySet(gs))}

hasSubGroups(gs) == \E k \in 1..Len(gs) : Len(gs[k].SubGroups) > 0

\* The possible results of BuildChart; {Nil} when there is no group.
BuildChart(q, gs) ==
    IF Len(gs) = 0 THEN {Nil}
    ELSE LET chartType == IF q.Visualize = "" THEN "bar" ELSE q.Visualize
             seriesSet == IF Len(q.GroupBy) >= 2 /\ hasSubGroups(gs)
                          THEN buildMultiSeries(gs)
                          ELSE {buildSingleSeries(gs, q.Title)}
         IN  { [ChartType  |-> chartType,
                Title      |-> q.Title,
                XAxis      |-> IF Len(q.GroupBy) > 0 THEN LabelForDimension(q.GroupBy[1]) ELSE "",
                YAxis      |-> LabelForAggregation(q.Aggregation),
                Series     |-> series,
                Colors     |-> assignColors(Len(series)),
                ShowLegend |-> TRUE,
                ShowGrid   |-> chartType # "pie"] : series \in seriesSet }

(***************************************************************************)
(* Executor helpers.  A reply and a template are texts: sequences of       *)
(* tokens in which a space, a placeholder and a punctuation mark are each  *)
(* a token of their own.                                                   *)
(***************************************************************************)
\* A Go string as a text: the empty string has no token.
Tok(s) == IF s = "" THEN <<>> ELSE <<s>>

\* strings.Join(elems, sep).
RECURSIVE Join(_, _)
Join(elems, sep) ==
    IF Len(elems) = 0 THEN ""
    ELSE IF Len(elems) = 1 THEN elems[1]
    ELSE elems[1] \o sep \o Join(Tail(elems), sep)

\* detectDisplayCurrency: the pair it returns.
detectDisplayCurrency(v, currencyDimension, baseCurrency) ==
    IF ViewLen(v) = 0 THEN [unit |-> baseCurrency, convert |-> FALSE]
    ELSE LET currencies == {Dimension(v, i, currencyDimension) : i \in 1..ViewLen(v)} \ {""}
         IN  IF Cardinality(currencies) = 1
             THEN [unit |-> CHOOSE c \in currencies : TRUE, convert |-> FALSE]
             ELSE [unit |-> baseCurrency, convert |-> TRUE]

inferUnit(v, currencyDimension) ==
    IF currencyDimension = "" \/ ViewLen(v) = 0 THEN ""
    ELSE Dimension(v, 1, currencyDimension)

buildDefaultReply(v, measure, unit) ==
    IF ViewLen(v) = 0 THEN <<"No matching records found.">>
    ELSE <<"Found", " ", ToString(ViewLen(v)), " ", "records totalling", " ">>
         \o FormatCurrency(SumMeasure(v, measure), unit) \o <<".">>

\* The possible results of buildFilterLabel: the parts are appended in the
\* order of a range over the map f.Dimensions.
buildFilterLabel(f) ==
    IF f = Nil THEN {"All"}
    ELSE IF IsEmpty(f) THEN {"All"}
    ELSE LET constrained == {d \in DOMAIN f.Dimensions : Len(f.Dimensions[d]) > 0}
         IN  IF constrained = {} THEN {"All records"}
             ELSE { Join([k \in 1..Len(o) |-> Join(f.Dimensions[o[k]], ", ")],
                         " " \o EmDash \o " ") : o \in KeyOrders(constrained) }

\* The tokens of the model that placeholderRegex \{[a-z_]+\} matches.
placeholderRegex ==
    { "{total}", "{count}", "{period}", "{currency}", "{top_category}", "{top_amount}",
      "{avg}", "{max}", "{min}", "{growth_percent}", "{change_amount}",
      "{earliest_value}", "{latest_value}", "{earliest_period}", "{latest_period}",
      "{direction}", "{ratio_percent}", "{numerator_total}", "{denominator_total}",
      "{numerator_label}", "{denominator_label}", "{foo}" }

\* strings.ReplaceAll(text, "  ", " "): pairs of spaces, left to right.
RECURSIVE CollapseSpaces(_)
CollapseSpaces(t) ==
    IF Len(t) = 0 THEN <<>>
    ELSE IF Len(t) >= 2 /\ t[1] = " " /\ t[2] = " "
         THEN <<" ">> \o CollapseSpaces(SubSeq(t, 3, Len(t)))
         ELSE <<t[1]>> \o CollapseSpaces(Tail(t))

RECURSIVE TrimLeft(_, _)
TrimLeft(t, cutset) ==
    IF Len(t) > 0 /\ t[1] \in cutset THEN TrimLeft(Tail(t), cutset) ELSE t

RECURSIVE TrimRight(_, _)
TrimRight(t, cutset) ==
    IF Len(t) > 0 /\ t[Len(t)] \in cutset THEN TrimRight(SubSeq(t, 1, Len(t) - 1), cutset)
    ELSE t

stripUnresolvedPlaceholders(text) ==
    LET removed   == SelectSeq(text, LAMBDA x : x \notin placeholderRegex)
        collapsed == CollapseSpaces(removed)
        \* strings.TrimSpace
        trimmed   == TrimRight(TrimLeft(collapsed, {" "}), {" "})
        cleaned   == TrimRight(trimmed, {" ", ".", EmDash, "-", EnDash})
    IN  IF cleaned = <<>> THEN text ELSE cleaned

\* The loop of strings.ReplaceAll over the map replacements: each placeholder
\* of the text that is a key of the map is replaced by the key's value.
RECURSIVE ReplaceAll(_, _)
ReplaceAll(text, replacements) ==
    IF Len(text) = 0 THEN <<>>
    ELSE (IF text[1] \in DOMAIN replacements THEN replacements[text[1]] ELSE <<text[1]>>)
         \o ReplaceAll(Tail(text), replacements)

\* The group ResolvePlaceholders takes as topGroup: the first of largest value.
RECURSIVE TopGroupFrom(_, _, _)
TopGroupFrom(gs, i, top) ==
    IF i > Len(gs) THEN top
    ELSE TopGroupFrom(gs, i + 1, IF RGt(gs[i].Value, top.Value) THEN gs[i] ELSE top)

\* The map replacements of ResolvePlaceholders, given the period and the
\* growth data it derived.
Replacements(gs, v, measure, unit, period, growthData) ==
    LET total == SumMeasure(v, measure)
        count == ViewLen(v)
        base == [k \in {"{total}", "{count}", "{period}", "{currency}"} |->
                   CASE k = "{total}"  -> FormatCurrency(total, unit)
                     [] k = "{count}"  -> <<ToString(count)>>
                     [] k = "{period}" -> period
                     [] OTHER          -> Tok(unit)]
        top == IF Len(gs) > 0
               THEN LET topGroup == TopGroupFrom(gs, 2, gs[1])
                    IN  [k \in {"{top_category}", "{top_amount}"} |->
                           IF k = "{top_category}" THEN Tok(topGroup.Label)
                           ELSE FormatCurrency(topGroup.Value, unit)]
               ELSE <<>>
        stats == IF count > 0
                 THEN [k \in {"{avg}", "{max}", "{min}"} |->
                         CASE k = "{avg}" -> FormatCurrency(RDiv(total, FromInt(count)), unit)
                           [] k = "{max}" -> FormatCurrency(MaxMeasure(v, measure), unit)
                           [] OTHER       -> FormatCurrency(MinMeasure(v, measure), unit)]
                 ELSE <<>>
        growth == IF growthData.Growth # Nil
                  THEN LET g == growthData.Growth
                       IN  [k \in {"{growth_percent}", "{change_amount}", "{earliest_value}",
                                   "{latest_value}", "{earliest_period}", "{latest_period}",
                                   "{direction}"} |->
                              CASE k = "{growth_percent}"  -> <<FormatPercent(g.ChangePercent)>>
                                [] k = "{change_amount}"   -> FormatCurrency(g.ChangeAmount, unit)
                                [] k = "{earliest_value}"  -> FormatCurrency(g.EarliestValue, unit)
                                [] k = "{latest_value}"    -> FormatCurrency(g.LatestValue, unit)
                                [] k = "{earliest_period}" -> g.EarliestPeriod
                                [] k = "{latest_period}"   -> g.LatestPeriod
                                [] OTHER                   -> Tok(g.Direction)]
                  ELSE <<>>
    IN  base @@ top @@ stats @@ growth

\* The possible results of ResolvePlaceholders.
ResolvePlaceholders(template, gs, v, measure, unit) ==
    IF template = <<>> THEN {buildDefaultReply(v, measure, unit)}
    ELSE { stripUnresolvedPlaceholders(
               ReplaceAll(template, Replacements(gs, v, measure, unit, period, growthData))) :
             period \in DerivePeriod(v), growthData \in BuildGrowthText(v, measure, unit) }

(***************************************************************************)
(* Executor.                                                               *)
(***************************************************************************)
Result(type, reply, chartConfig, tableData, data, unit, shouldConvert) ==
    [Success |-> TRUE, Type |-> type, Reply |-> reply, ChartConfig |-> chartConfig,
     TableData |-> tableData, Data |-> data, DisplayUnit |-> unit,
     ShouldConvert |-> shouldConvert]

\* The measure Execute aggregates.
ResolveMeasure(q, c) ==
    IF q.Measure # "" THEN q.Measure
    ELSE IF c.DefaultMeasure # "" THEN c.DefaultMeasure
    ELSE "amount"

\* The reply of the growth override, from textData.Value and textData.Period.
InsufficientReply(value, period) ==
    <<"Your data shows", " ">> \o value \o <<" ", "for", " ">> \o period
    \o <<".", " ", "Need at least 2 months of data to show trends.">>

\* pct of executeRatio.
RatioPercent(numSum, denomSum) ==
    IF RGt(denomSum, Zero) THEN RMul(RDiv(numSum, denomSum), Hundred) ELSE Zero

\* The possible results of executeRatio.
executeRatio(q, v, measure, c) ==
    LET denominator == ApplyFilters(v, q.Filters)
        numerator   == ApplyFilters(v, q.CompareFilters)
        denomSum    == SumMeasure(denominator, measure)
        numSum      == SumMeasure(numerator, measure)
        pct         == RatioPercent(numSum, denomSum)
        unit        == IF c.BaseCurrency # "" THEN c.BaseCurrency
                       ELSE inferUnit(denominator, c.CurrencyDimension)
        displayValue == <<FormatPercent(pct)>>
        combined    == newConcatView(denominator, numerator)
    IN  { Result("text",
                 ReplaceAll(q.Reply,
                    [k \in {"{ratio_percent}", "{numerator_total}", "{denominator_total}",
                            "{numerator_label}", "{denominator_label}", "{period}",
                            "{total}"} |->
                       CASE k = "{ratio_percent}"     -> displayValue
                         [] k = "{numerator_total}"   -> FormatCurrency(numSum, unit)
                         [] k = "{denominator_total}" -> FormatCurrency(denomSum, unit)
                         [] k = "{numerator_label}"   -> Tok(numLabel)
                         [] k = "{denominator_label}" -> Tok(denomLabel)
                         [] k = "{period}"            -> period
                         [] OTHER                     -> FormatCurrency(numSum, unit)]),
                 Nil, Nil,
                 TextData(displayValue, pct, unit, period,
                          ViewLen(numerator) + ViewLen(denominator), Nil,
                          [NumeratorTotal |-> numSum, DenominatorTotal |-> denomSum,
                           Percentage |-> pct, NumeratorLabel |-> numLabel,
                           DenominatorLabel |-> denomLabel]),
                 unit, FALSE) :
            numLabel \in buildFilterLabel(q.CompareFilters),
            denomLabel \in buildFilterLabel(q.Filters),
            period \in DerivePeriod(combined) }

(***************************************************************************)
(* Query normalization and the translator's response parser.               *)
(***************************************************************************)
\* Mutant of NormalizeQuerySpec: rule 2 (charts need a group-by) is left out.
NormalizeQuerySpec_NoChartRule(q) ==
    LET r1 == IF q.Aggregation = "list" /\ q.Intent # "table"
              THEN [q EXCEPT !.Intent = "table", !.Visualize = "table"] ELSE q
    IN  IF r1.Aggregation \in {"max", "min"} /\ Len(r1.GroupBy) = 0
        THEN [r1 EXCEPT !.Intent = "text", !.Visualize = "text"] ELSE r1

\* Mutant of NormalizeQuerySpec: rule 1 sets the visualization hint only.
NormalizeQuerySpec_VisualizeOnly(q) ==
    LET r1 == IF q.Aggregation = "list" /\ q.Intent # "table"
              THEN [q EXCEPT !.Visualize = "table"] ELSE q
        r2 == IF r1.Intent = "chart" /\ Len(r1.GroupBy) = 0
              THEN [r1 EXCEPT !.Intent = "text", !.Visualize = "text"] ELSE r1
    IN  IF r2.Aggregation \in {"max", "min"} /\ Len(r2.GroupBy) = 0
        THEN [r2 EXCEPT !.Intent = "text", !.Visualize = "text"] ELSE r2

\* The three rules, applied one after the other.
NormalizeQuerySpec(q) ==
    LET r1 == IF q.Aggregation = "list" /\ q.Intent # "table"
              THEN [q EXCEPT !.Intent = "table", !.Visualize = "table"] ELSE q
        r2 == IF r1.Intent = "chart" /\ Len(r1.GroupBy) = 0
              THEN [r1 EXCEPT !.Intent = "text", !.Visualize = "text"] ELSE r1
    IN  IF r2.Aggregation \in {"max", "min"} /\ Len(r2.GroupBy) = 0
        THEN [r2 EXCEPT !.Intent = "text", !.Visualize = "text"] ELSE r2

\* What parseResponse does to the QuerySpec it unmarshalled: the defaults
\* for missing fields, then the engine's normalization.
parseResponse(q) ==
    LET d1 == IF q.Intent = "" THEN [q EXCEPT !.Intent = "text"] ELSE q
        d2 == IF d1.Aggregation = "" THEN [d1 EXCEPT !.Aggregation = "sum"] ELSE d1
        d3 == IF d2.Visualize = "" THEN [d2 EXCEPT !.Visualize = d2.Intent] ELSE d2
    IN  NormalizeQuerySpec(d3)

(***************************************************************************)
(* Package schema: Refine and its helpers.                                 *)
(*                                                                         *)
(* A *Config, a slice's backing array and a map are cells of `heap`, named *)
(* by their address (the index of the cell); address 0 is nil.  A struct   *)
(* held by value is a record; a slice or map field of it is the address of *)
(* its cell, so two structs that share a backing array share an address    *)
(* and a write through one is read through the other.  Only the fields     *)
(* Refine reads or writes are kept in DimensionMeta and MeasureMeta; the   *)
(* others are scalars that travel with the struct copy.                    *)
(***************************************************************************)
Elems(h, a) == IF a = 0 THEN <<>> ELSE h[a]

\* New cells for the config value v, after the cells of h: the sample slice
\* of every dimension, the dimensions, the aggregation slice of every
\* measure, the measures, the skipped columns, the rates and the currency
\* struct if there is one, and the Config itself in the last cell.
NewCells(h, v) ==
    LET b  == Len(h)
        nd == Len(v.Dimensions)
        nm == Len(v.Measures)
        da == b + nd + 1
        ma == da + nm + 1
        sa == ma + 1
        ca == IF v.Currency = Nil THEN 0 ELSE sa + 2
    IN  [heap |->
            h \o [i \in 1..nd |-> v.Dimensions[i].SampleValues]
              \o << [i \in 1..nd |-> [v.Dimensions[i] EXCEPT !.SampleValues = b + i]] >>
              \o [j \in 1..nm |-> v.Measures[j].Aggregations]
              \o << [j \in 1..nm |-> [v.Measures[j] EXCEPT !.Aggregations = da + j]] >>
              \o << v.SkippedColumns >>
              \o (IF v.Currency = Nil THEN <<>>
                  ELSE << v.Currency.Rates, [v.Currency EXCEPT !.Rates = sa + 1] >>)
              \o << [v EXCEPT !.Dimensions = da, !.Measures = ma,
                              !.SkippedColumns = sa, !.Currency = ca] >>,
         addr |-> IF v.Currency = Nil THEN sa + 1 ELSE sa + 3]

\* dst := *src: the struct is copied, every slice and the currency pointer
\* are shared with the source.
deepCopyConfig_Shallow(h, src) == [heap |-> Append(h, h[src]), addr |-> Len(h) + 1]

\* Every field of dst is read from src: the slices element by element into
\* new backing arrays, the rates into a new map.
deepCopyConfig(h, src) ==
    LET c == h[src]
    IN  NewCells(h,
            [Name |-> c.Name, Version |-> c.Version, Description |-> c.Description,
             DiscoveredFrom |-> c.DiscoveredFrom, DiscoveredAt |-> c.DiscoveredAt,
             Dimensions |-> [i \in DOMAIN Elems(h, c.Dimensions) |->
                 [h[c.Dimensions][i] EXCEPT !.SampleValues = Elems(h, @)]],
             Measures |-> [i \in DOMAIN Elems(h, c.Measures) |->
                 [h[c.Measures][i] EXCEPT !.Aggregations = Elems(h, @)]],
             SkippedColumns |-> Elems(h, c.SkippedColumns),
             Currency |-> IF c.Currency = 0 THEN Nil
                          ELSE [h[c.Currency] EXCEPT !.Rates = h[@]],
             RefinedAt |-> "", RefinedBy |-> ""])

isValidAggregation(agg) == agg \in {"sum", "avg", "count", "max", "min"}

\* enrichMap: the last enrichment of a key wins.
enrichMap(enrichments) ==
    [k \in {enrichments[i].Key : i \in DOMAIN enrichments} |->
        LET last == CHOOSE i \in DOMAIN enrichments :
                        /\ enrichments[i].Key = k
                        /\ \A j \in DOMAIN enrichments : enrichments[j].Key = k => j <= i
        IN  enrichments[last]]

enrichDimension(d, em) ==
    IF d.Key \notin DOMAIN em THEN d
    ELSE LET e == em[d.Key]
         IN  [d EXCEPT !.DisplayName = IF e.DisplayName # "" THEN e.DisplayName ELSE @,
                       !.Description = IF e.Description # "" THEN e.Description ELSE @,
                       !.SortHint    = IF e.SortHint # "" THEN e.SortHint ELSE @]

enrichMeasure(m, em) ==
    IF m.Key \notin DOMAIN em THEN m
    ELSE LET e == em[m.Key]
         IN  [m EXCEPT !.DisplayName = IF e.DisplayName # "" THEN e.DisplayName ELSE @,
                       !.Description = IF e.Description # "" THEN e.Description ELSE @,
                       !.Unit        = IF e.Unit # "" THEN e.Unit ELSE @,
                       !.IsCurrency  = IF e.Unit = "currency" THEN TRUE ELSE @,
                       !.DefaultAggregation =
                           IF e.DefaultAggregation # "" /\ isValidAggregation(e.DefaultAggregation)
                           THEN e.DefaultAggregation ELSE @]

\* Every suggestion overwrites the parent, set or not.
applyHierarchies_Override(dims, hs, n) ==
    [i \in DOMAIN dims |->
        LET named == {j \in DOMAIN hs : hs[j].Child = dims[i].Key}
        IN  IF named = {} THEN dims[i]
            ELSE [dims[i] EXCEPT !.Parent =
                      hs[CHOOSE j \in named : \A k \in named : k <= j].Parent]]

\* The two loops over SuggestedHierarchies and result.Dimensions, run for
\* suggestions n, n+1, ...
RECURSIVE applyHierarchies(_, _, _)
applyHierarchies(dims, hs, n) ==
    IF n > Len(hs) THEN dims
    ELSE applyHierarchies(
             [i \in DOMAIN dims |->
                 IF dims[i].Key = hs[n].Child /\ dims[i].Parent = ""
                 THEN [dims[i] EXCEPT !.Parent = hs[n].Parent] ELSE dims[i]],
             hs, n + 1)

\* time.Now().Format(time.RFC3339): some non-empty text.
Now == "2026-01-01T00:00:00Z"

applyEnrichments(h, draft, enrichment) ==
    LET r  == deepCopyConfig(h, draft)
        c  == r.heap[r.addr]
        em == enrichMap(enrichment.Enrichments)
    IN  [heap |->
            [r.heap EXCEPT
                ![r.addr] = [@ EXCEPT
                    !.Name = IF enrichment.DatasetName # ""
                             THEN enrichment.DatasetName ELSE @,
                    !.Description = IF enrichment.DatasetDescription # ""
                                    THEN enrichment.DatasetDescription ELSE @,
                    !.RefinedAt = Now,
                    !.RefinedBy = "gemini"],
                ![c.Dimensions] =
                    applyHierarchies([i \in DOMAIN @ |-> enrichDimension(@[i], em)],
                                     enrichment.SuggestedHierarchies, 1),
                ![c.Measures] = [i \in DOMAIN @ |-> enrichMeasure(@[i], em)]],
         addr |-> r.addr]

(***************************************************************************)
(* Package schema: auto-discovery.                                         *)
(*                                                                         *)
(* DiscoverFromCSV is modelled from the parsed table on: `headers` is the  *)
(* first CSV record and `rows` the records after it, all with as many      *)
(* fields as the header (encoding/csv rejects the others and the loop      *)
(* skips them).  A column type or role is the name of its constant.  Of    *)
(* columnAnalysis, DimensionMeta and MeasureMeta only the fields that take *)
(* part in typing, role classification and hierarchy detection are kept.   *)
(* The recognizers are given over the texts the model's tables hold.       *)
(***************************************************************************)
TrimSpace(s) == CASE s = "x " -> "x" [] OTHER -> s

toSnakeCase(s) == CASE s = "Issue Key" -> "issue_key" [] OTHER -> ToLower(s)

IdTexts ==
    << "PROJ-001", "PROJ-002", "PROJ-003", "PROJ-004", "PROJ-005", "PROJ-006", "PROJ-007",
       "PROJ-008", "PROJ-009", "PROJ-010", "PROJ-011", "PROJ-012", "PROJ-013" >>

IntTexts ==
    << "101", "102", "103", "104", "105", "106", "107", "108", "109", "110", "111", "112",
       "113" >>

DecimalTexts ==
    << "1.5", "2.5", "3.5", "4.5", "5.5", "6.5", "7.5", "8.5", "9.5", "10.5", "11.5", "12.5",
       "13.5" >>

DateTexts ==
    << "2025-11-01", "2025-11-02", "2025-11-03", "2025-11-04", "2025-11-05", "2025-11-06",
       "2025-11-07", "2025-11-08", "2025-11-09", "2025-11-10", "2025-11-11", "2025-11-12",
       "2025-11-13" >>

BoolTexts ==
    << "true", "TRUE", "True", "false", "FALSE", "False", "yes", "YES", "Yes", "no", "NO",
       "No", "1", "0" >>

Range(s) == {s[i] : i \in DOMAIN s}

\* strconv.ParseFloat succeeds; "2025" is a number and a year.
isNumeric(s) == TrimSpace(s) \in Range(IntTexts) \cup Range(DecimalTexts) \cup {"1", "0", "2025"}

\* time.Parse succeeds for one of dateFormats ("2006-01-02", ..., "2006").
isDate(s) == TrimSpace(s) \in Range(DateTexts) \cup {"2025"}

isBool(s) == ToLower(TrimSpace(s)) \in {"true", "false", "yes", "no", "1", "0"}

\* strings.Contains(v, ".")
ContainsDot(s) == s \in Range(DecimalTexts)

Matching(values, recognizer(_)) == Cardinality({i \in DOMAIN values : recognizer(values[i])})

\* int(float64(len(values)) * 0.8): the product is never below 4n/5 and is
\* exactly 4n/5 when that is an integer, so the conversion yields the floor.
detectType(values) ==
    IF Len(values) = 0 THEN "typeString"
    ELSE LET threshold == (4 * Len(values)) \div 5
         IN  IF Matching(values, isBool) >= threshold THEN "typeBool"
             ELSE IF Matching(values, isDate) >= threshold THEN "typeDate"
             ELSE IF Matching(values, isNumeric) >= threshold THEN "typeNumeric"
             ELSE "typeString"

IsNull(val) == val \in {"", "null", "NULL", "N/A", "n/a"}

\* The loop of analyzeColumn that collects `values`.
ColumnValues(index, rows) ==
    SelectSeq([i \in DOMAIN rows |-> TrimSpace(rows[i][index])], LAMBDA v : ~IsNull(v))

\* The test both identifier rules make; this one skips from twelve rows on.
uniquePerRow_FromTwelve(col, totalRows) == col.uniqueCount = totalRows /\ totalRows > 11

uniquePerRow(col, totalRows) == col.uniqueCount = totalRows /\ totalRows > 10

classifyRole(col, totalRows) ==
    CASE col.colType = "typeNumeric" ->
           IF uniquePerRow(col, totalRows)
           THEN [col EXCEPT !.role = "roleSkipped", !.recoverable = FALSE,
                            !.skipReason = "Unique per row -- likely an ID column"]
           ELSE IF col.hasDecimals THEN [col EXCEPT !.role = "roleMeasure"]
           ELSE IF col.uniqueCount < 20 /\ 10 * col.uniqueCount < 3 * totalRows
           THEN [col EXCEPT !.role = "roleDimension"]
           ELSE [col EXCEPT !.role = "roleMeasure"]
      [] col.colType = "typeDate" ->
           [col EXCEPT !.role = "roleDimension", !.isTemporal = TRUE]
      [] col.colType = "typeBool" ->
           [col EXCEPT !.role = "roleDimension"]
      [] col.colType = "typeString" ->
           IF uniquePerRow(col, totalRows)
           THEN [col EXCEPT !.role = "roleSkipped", !.recoverable = FALSE,
                            !.skipReason = "Unique per row -- likely an identifier"]
           ELSE IF col.uniqueCount > totalRows \div 2 /\ col.uniqueCount > 50
           THEN [col EXCEPT !.role = "roleSkipped", !.recoverable = TRUE,
                            !.skipReason = "High cardinality -- not useful for grouping"]
           ELSE [col EXCEPT !.role = "roleDimension"]

analyzeColumn(header, index, rows, totalRows) ==
    LET values == ColumnValues(index, rows)
        col == [header |-> header, key |-> toSnakeCase(header), index |-> index,
                totalCount |-> totalRows, nullCount |-> Len(rows) - Len(values),
                uniqueCount |-> Cardinality(Range(values)), colType |-> "typeString",
                role |-> "roleDimension", skipReason |-> "", recoverable |-> FALSE,
                isTemporal |-> FALSE, hasDecimals |-> FALSE]
    IN  IF Len(values) = 0
        THEN [col EXCEPT !.role = "roleSkipped", !.skipReason = "All values are empty/null"]
        ELSE LET t == detectType(values)
             IN  classifyRole(
                     [col EXCEPT !.colType = t,
                                 !.hasDecimals = t = "typeNumeric"
                                                 /\ \E i \in DOMAIN values : ContainsDot(values[i]),
                                 !.isTemporal = t = "typeDate"],
                     totalRows)

\* dimIndices: the column a dimension key stands for, the last one of that
\* key among the columns classified as dimensions.
dimIndices(columns) ==
    LET ds == {c \in DOMAIN columns : columns[c].role = "roleDimension"}
    IN  [k \in {columns[c].key : c \in ds} |->
            CHOOSE c \in ds : columns[c].key = k /\ \A e \in ds : columns[e].key = k => e <= c]

\* The row loop of detectHierarchies for one (child, parent) pair of columns.
isHierarchy(childIdx, parentIdx, rows) ==
    LET both == {r \in DOMAIN rows : /\ TrimSpace(rows[r][childIdx]) # ""
                                      /\ TrimSpace(rows[r][parentIdx]) # ""}
    IN  /\ \A r1, r2 \in both :
              TrimSpace(rows[r1][childIdx]) = TrimSpace(rows[r2][childIdx])
              => TrimSpace(rows[r1][parentIdx]) = TrimSpace(rows[r2][parentIdx])
        /\ Cardinality({TrimSpace(rows[r][childIdx]) : r \in both}) > 1

detectHierarchies(dimensions, rows, headers, columns) ==
    LET idx == dimIndices(columns)
        uniques(k) == columns[idx[k]].uniqueCount
        valid(i) == {j \in DOMAIN dimensions :
                        /\ j # i
                        /\ dimensions[j].Key \in DOMAIN idx
                        /\ uniques(dimensions[j].Key) < uniques(dimensions[i].Key)
                        /\ isHierarchy(idx[dimensions[i].Key], idx[dimensions[j].Key], rows)}
        best(i) == CHOOSE j \in valid(i) :
                       \A k \in valid(i) :
                           \/ uniques(dimensions[k].Key) < uniques(dimensions[j].Key)
                           \/ uniques(dimensions[k].Key) = uniques(dimensions[j].Key) /\ j <= k
    IN  [i \in DOMAIN dimensions |->
            IF dimensions[i].Key \in DOMAIN idx /\ valid(i) # {}
            THEN [dimensions[i] EXCEPT !.Parent = dimensions[best(i)].Key]
            ELSE dimensions[i]]

toDimension(col) == [Key |-> col.key, Parent |-> "", IsTemporal |-> col.isTemporal]

toMeasure(col) == [Key |-> col.key, DefaultAggregation |-> "sum"]

\* The loop over the analysed columns, from column c on.
RECURSIVE BuildSchema(_, _, _, _)
BuildSchema(columns, recoverSet, c, acc) ==
    IF c > Len(columns) THEN acc
    ELSE LET col == columns[c]
             recovered == ToLower(col.header) \in recoverSet \/ col.key \in recoverSet
         IN  BuildSchema(columns, recoverSet, c + 1,
                 CASE col.role = "roleDimension" \/ (col.role = "roleSkipped" /\ recovered) ->
                        [acc EXCEPT !.Dimensions = Append(@, toDimension(col))]
                   [] col.role = "roleMeasure" ->
                        [acc EXCEPT !.Measures = Append(@, toMeasure(col))]
                   [] OTHER ->
                        [acc EXCEPT !.SkippedColumns =
                            Append(@, [Column |-> col.header, Reason |-> col.skipReason,
                                       Recoverable |-> col.recoverable])])

DiscoverFromCSV(headers, data, opt) ==
    LET limit == IF opt.SampleSize <= 0 THEN 100000 ELSE opt.SampleSize
        rows == SubSeq(data, 1, IF Len(data) < limit THEN Len(data) ELSE limit)
        totalRows == Len(rows)
        columns == [i \in DOMAIN headers |-> analyzeColumn(headers[i], i, rows, totalRows)]
        recoverSet == {ToLower(opt.RecoverColumns[i]) : i \in DOMAIN opt.RecoverColumns}
        built == BuildSchema(columns, recoverSet, 1,
                             [Dimensions |-> <<>>, Measures |-> <<>>, SkippedColumns |-> <<>>])
    IN  IF Len(headers) = 0 THEN [config |-> Nil, err |-> "CSV has no columns"]
        ELSE IF totalRows = 0 THEN [config |-> Nil, err |-> "CSV has no data rows"]
        ELSE [config |->
                [Dimensions |-> detectHierarchies(built.Dimensions, rows, headers, columns),
                 Measures |-> Append(built.Measures,
                                     [Key |-> "record_count", DefaultAggregation |-> "count"]),
                 SkippedColumns |-> built.SkippedColumns],
              err |-> ""]

(***************************************************************************)
(* Inputs: the sets the specifications draw views, queries and options     *)
(* from.                                                                   *)
(***************************************************************************)
SeqsUpTo(S, n) == UNION {[1..k -> S] : k \in 0..n}

\* The Go maps with keys among DOMAIN V, each key k carrying a value of V[k].
PartialMaps(V) ==
    UNION { {f \in [S -> UNION {V[k] : k \in S}] : \A k \in S : f[k] \in V[k]} :
            S \in SUBSET (DOMAIN V) }

NoFilters == [Dimensions |-> <<>>]

\* A zero QuerySpec.
QueryDefaults ==
    [Intent |-> "", Filters |-> NoFilters, CompareFilters |-> Nil,
     Aggregation |-> "", Measure |-> "", GroupBy |-> <<>>, SortBy |-> "",
     Limit |-> 0, Visualize |-> "", Title |-> "", Reply |-> <<>>]

\* applyOptions with no option.
DefaultConfig ==
    [BaseCurrency |-> "", CurrencyDimension |-> "", ExchangeRates |-> <<>>,
     DefaultMeasure |-> "amount"]

(***************************************************************************)
(* SpecFilter: one call of ApplyFilters(view, spec.Filters).               *)
(***************************************************************************)
FilterRecords ==
    { [Dimensions |-> d, Measures |-> [amount |-> a]] :
        d \in PartialMaps([field |-> {"Rent", "RENT", "food"}, location |-> {"SG"}]),
        a \in {1, 2} }

FilterInputs ==
    { [Dimensions |-> f] :
        f \in PartialMaps([field |-> {<<>>, <<"rent">>, <<"Food", "RENT">>, <<"">>},
                           location |-> {<<>>, <<"sg">>}]) }

InitFilter ==
    /\ view \in {NewSliceView(rs) : rs \in SeqsUpTo(FilterRecords, MaxViewLen)}
    /\ spec \in {[QueryDefaults EXCEPT !.Filters = f] : f \in FilterInputs}
    /\ cfg = DefaultConfig
    /\ pc = "call"
    /\ filtered = Nil
    /\ displayUnit = ""
    /\ needsConversion = FALSE
    /\ groups = <<>>
    /\ result = Nil
    /\ ret = Nil
    /\ js = Nil
    /\ heap = <<>>
    /\ call = Nil

CallApplyFilters ==
    /\ pc = "call"
    /\ ret' = ApplyFilters(view, spec.Filters)
    /\ pc' = "ret"
    /\ UNCHANGED <<js, heap, call, view, spec, cfg, filtered, displayUnit, needsConversion, groups, result>>

NextFilter == CallApplyFilters

SpecFilter == InitFilter /\ [][NextFilter]_vars

(***************************************************************************)
(* SpecGroup: one call of GroupAndAggregate(view, spec.GroupBy, "amount",  *)
(* spec.Aggregation, spec.SortBy, spec.Limit).                             *)
(***************************************************************************)
GroupRecords ==
    { [Dimensions |-> [field |-> f, month |-> m], Measures |-> [amount |-> a]] :
        f \in {"Rent", "Food"}, m \in {"Jan-2026", "Feb-2026"}, a \in {1, 2} }

GroupQueries ==
    { [QueryDefaults EXCEPT !.GroupBy = g, !.Aggregation = a, !.SortBy = s, !.Limit = l] :
        g \in {<<>>, <<"field">>, <<"field", "month">>, <<"year", "month", "field">>},
        a \in {"sum", "count"},
        s \in {"", "value_desc"},
        l \in {0, 1} }

InitGroup ==
    /\ view \in {NewSliceView(rs) : rs \in SeqsUpTo(GroupRecords, MaxViewLen)}
    /\ spec \in GroupQueries
    /\ cfg = DefaultConfig
    /\ pc = "call"
    /\ filtered = Nil
    /\ displayUnit = ""
    /\ needsConversion = FALSE
    /\ groups = <<>>
    /\ result = Nil
    /\ ret = Nil
    /\ js = Nil
    /\ heap = <<>>
    /\ call = Nil

CallGroupAndAggregate ==
    /\ pc = "call"
    /\ \E gs \in GroupAndAggregate(view, spec.GroupBy, "amount", spec.Aggregation,
                                   spec.SortBy, spec.Limit) :
          ret' = gs
    /\ pc' = "ret"
    /\ UNCHANGED <<js, heap, call, view, spec, cfg, filtered, displayUnit, needsConversion, groups, result>>

NextGroup == CallGroupAndAggregate

SpecGroup == InitGroup /\ [][NextGroup]_vars

(***************************************************************************)
(* SpecCurrencyView: a CurrencyView over a slice, built by newCurrencyView *)
(* for the measure "amount", and two reads of Measure(i, key) on it.       *)
(***************************************************************************)
CurrencyRecords ==
    { [Dimensions |-> d, Measures |-> [amount |-> a, qty |-> 5]] :
        d \in PartialMaps([currency |-> {"SGD", "USD", "EUR"}]),
        a \in {2, -3} }

CurrencyConfigs ==
    { [DefaultConfig EXCEPT !.BaseCurrency = b, !.CurrencyDimension = "currency",
                            !.ExchangeRates = r] :
        b \in {"SGD", "USD"},
        r \in PartialMaps([USD |-> {2, 0}, EUR |-> {3, -1}]) }

InitCurrencyView ==
    /\ view \in {NewSliceView(rs) : rs \in SeqsUpTo(CurrencyRecords, MaxViewLen)}
    /\ spec = [QueryDefaults EXCEPT !.Measure = "amount"]
    /\ cfg \in CurrencyConfigs
    /\ pc = "call"
    /\ filtered = newCurrencyView(view, spec.Measure, cfg.CurrencyDimension,
                                  cfg.BaseCurrency, cfg.ExchangeRates)
    /\ displayUnit = ""
    /\ needsConversion = FALSE
    /\ groups = <<>>
    /\ result = Nil
    /\ ret = Nil
    /\ js = Nil
    /\ heap = <<>>
    /\ call = Nil

\* A first read of Measure(i, key).
ReadMeasure ==
    /\ pc = "call"
    /\ \E i \in 1..ViewLen(filtered), key \in {"amount", "qty"} :
          ret' = [i |-> i, key |-> key, first |-> Measure(filtered, i, key),
                  second |-> Nil]
    /\ pc' = "read"
    /\ UNCHANGED <<js, heap, call, view, spec, cfg, filtered, displayUnit, needsConversion, groups, result>>

\* A second read of the same index and key.
ReadMeasureAgain ==
    /\ pc = "read"
    /\ ret' = [ret EXCEPT !.second = Measure(filtered, ret.i, ret.key)]
    /\ pc' = "reread"
    /\ UNCHANGED <<js, heap, call, view, spec, cfg, filtered, displayUnit, needsConversion, groups, result>>

NextCurrencyView == ReadMeasure \/ ReadMeasureAgain

SpecCurrencyView == InitCurrencyView /\ [][NextCurrencyView]_vars

(***************************************************************************)
(* SpecGrowth: one call of BuildGrowthText(view, "amount", "SGD").         *)
(***************************************************************************)
GrowthRecords ==
    { [Dimensions |-> d, Measures |-> [amount |-> a]] :
        d \in PartialMaps([month |-> {"Jan-2026", "Feb-2026", "Q1", "Q2"}]),
        a \in {0, 200, 201} }

InitGrowth ==
    /\ view \in {NewSliceView(rs) : rs \in SeqsUpTo(GrowthRecords, MaxGrowthLen)}
    /\ spec = [QueryDefaults EXCEPT !.Aggregation = "growth", !.Intent = "text",
                                    !.Measure = "amount"]
    /\ cfg = DefaultConfig
    /\ pc = "call"
    /\ filtered = Nil
    /\ displayUnit = "SGD"
    /\ needsConversion = FALSE
    /\ groups = <<>>
    /\ result = Nil
    /\ ret = Nil
    /\ js = Nil
    /\ heap = <<>>
    /\ call = Nil

CallBuildGrowthText ==
    /\ pc = "call"
    /\ \E t \in BuildGrowthText(view, spec.Measure, displayUnit) : ret' = t
    /\ pc' = "ret"
    /\ UNCHANGED <<js, heap, call, view, spec, cfg, filtered, displayUnit, needsConversion, groups, result>>

NextGrowth == CallBuildGrowthText

SpecGrowth == InitGrowth /\ [][NextGrowth]_vars

(***************************************************************************)
(* SpecExec: one call of Execute(spec, view, opts), stage by stage.  pc is *)
(* the position in Execute; result is the Result once pc = "done".         *)
(***************************************************************************)
MaxExecLen == 2

ExecRecords ==
    { [Dimensions |-> [field |-> f, month |-> m, currency |-> ca[1]],
       Measures |-> [amount |-> ca[2]]] :
        f \in {"Rent", "Food"}, m \in {"Jan-2026", "Feb-2026", ""},
        ca \in {<<"USD", 2>>, <<"SGD", -3>>} }

ExecFilters ==
    {NoFilters, [Dimensions |-> [field |-> <<"rent">>]], [Dimensions |-> [field |-> <<"gas">>]]}

ExecTemplates ==
    { <<>>,
      <<"Spent", " ", "{total}", " ", "on", " ", "{count}", " ", "{foo}", " ", "{period}", ".">>,
      <<"{ratio_percent}", " ", "{numerator_label}", " ", "{direction}">> }

ExecQueries ==
    { [QueryDefaults EXCEPT !.Intent = i, !.Aggregation = ac[1], !.CompareFilters = ac[2],
                            !.Filters = f, !.GroupBy = g, !.Reply = r] :
        i \in {"chart", "table", "text", ""},
        ac \in ({"sum", "count", "growth", "list"} \X {Nil})
               \cup ({"ratio"} \X ({Nil} \cup (ExecFilters \ {NoFilters}))),
        f \in ExecFilters,
        g \in {<<>>, <<"field">>},
        r \in ExecTemplates }

ExecConfigs ==
    { DefaultConfig,
      [DefaultConfig EXCEPT !.CurrencyDimension = "currency"],
      [DefaultConfig EXCEPT !.BaseCurrency = "SGD", !.CurrencyDimension = "currency"],
      [DefaultConfig EXCEPT !.BaseCurrency = "SGD", !.CurrencyDimension = "currency",
                            !.ExchangeRates = [USD |-> 2]] }

InitExec ==
    /\ view \in {NewSliceView(rs) : rs \in SeqsUpTo(ExecRecords, MaxExecLen)}
    /\ spec \in ExecQueries
    /\ cfg \in ExecConfigs
    /\ pc = "start"
    /\ filtered = Nil
    /\ displayUnit = ""
    /\ needsConversion = FALSE
    /\ groups = <<>>
    /\ result = Nil
    /\ ret = Nil
    /\ js = Nil
    /\ heap = <<>>
    /\ call = Nil

\* view.Len() == 0: the early return.
ExecEmptyView ==
    /\ pc = "start"
    /\ ViewLen(view) = 0
    /\ result' = Result("text", <<"No data available to analyze.">>, Nil, Nil, Nil, "", FALSE)
    /\ pc' = "done"
    /\ UNCHANGED <<js, heap, call, view, spec, cfg, filtered, displayUnit, needsConversion, groups, ret>>

\* The ratio aggregation: the early return through executeRatio.
ExecRatio ==
    /\ pc = "start"
    /\ ViewLen(view) # 0
    /\ spec.Aggregation = "ratio" /\ spec.CompareFilters # Nil
    /\ \E r \in executeRatio(spec, view, ResolveMeasure(spec, cfg), cfg) : result' = r
    /\ pc' = "done"
    /\ UNCHANGED <<js, heap, call, view, spec, cfg, filtered, displayUnit, needsConversion, groups, ret>>

\* 1. Apply filters, with the early return when nothing passes.
ExecApplyFilters ==
    /\ pc = "start"
    /\ ViewLen(view) # 0
    /\ ~(spec.Aggregation = "ratio" /\ spec.CompareFilters # Nil)
    /\ filtered' = ApplyFilters(view, spec.Filters)
    /\ IF ViewLen(filtered') = 0
       THEN /\ result' = Result("text",
                               <<"No records match your query filters. Try broadening your search.">>,
                               Nil, Nil, Nil, "", FALSE)
            /\ pc' = "done"
       ELSE /\ result' = result
            /\ pc' = "normalize"
    /\ UNCHANGED <<js, heap, call, view, spec, cfg, displayUnit, needsConversion, groups, ret>>

\* 2. Currency normalization.
ExecNormalize ==
    /\ pc = "normalize"
    /\ LET measure  == ResolveMeasure(spec, cfg)
           enabled  == /\ cfg.BaseCurrency # ""
                       /\ cfg.CurrencyDimension # ""
                       /\ DOMAIN cfg.ExchangeRates # {}
           detected == detectDisplayCurrency(filtered, cfg.CurrencyDimension,
                                             cfg.BaseCurrency)
           convert  == enabled /\ detected.convert
           wrapped  == IF convert
                       THEN newCurrencyView(filtered, measure, cfg.CurrencyDimension,
                                            cfg.BaseCurrency, cfg.ExchangeRates)
                       ELSE filtered
           unit     == IF ~enabled THEN cfg.BaseCurrency
                       ELSE IF convert THEN cfg.BaseCurrency
                       ELSE detected.unit
       IN  /\ filtered' = wrapped
           /\ needsConversion' = convert
           /\ displayUnit' = IF unit = "" THEN inferUnit(wrapped, cfg.CurrencyDimension)
                             ELSE unit
    /\ pc' = "group"
    /\ UNCHANGED <<js, heap, call, view, spec, cfg, groups, result, ret>>

\* 3. Group and aggregate.
ExecGroup ==
    /\ pc = "group"
    /\ \E gs \in GroupAndAggregate(filtered, spec.GroupBy, ResolveMeasure(spec, cfg),
                                   spec.Aggregation, spec.SortBy, spec.Limit) :
          groups' = gs
    /\ pc' = "build"
    /\ UNCHANGED <<js, heap, call, view, spec, cfg, filtered, displayUnit, needsConversion, result, ret>>

\* 4. case "chart".
ExecBuildChart ==
    /\ pc = "build"
    /\ spec.Intent = "chart"
    /\ \E chart \in BuildChart(spec, groups) :
          IF chart = Nil
          THEN /\ result' = Result("text", <<"Not enough data to generate a chart.">>, Nil, Nil, Nil,
                                   displayUnit, needsConversion)
               /\ pc' = "done"
          ELSE /\ result' = Result("chart", <<>>, chart, Nil, Nil,
                                   displayUnit, needsConversion)
               /\ pc' = "resolve"
    /\ UNCHANGED <<js, heap, call, view, spec, cfg, filtered, displayUnit, needsConversion, groups, ret>>

\* 4. case "table".
ExecBuildTable ==
    /\ pc = "build"
    /\ spec.Intent = "table"
    /\ result' = Result("table", <<>>, Nil,
                        BuildTable(spec, groups, filtered, ResolveMeasure(spec, cfg),
                                   displayUnit),
                        Nil, displayUnit, needsConversion)
    /\ pc' = "resolve"
    /\ UNCHANGED <<js, heap, call, view, spec, cfg, filtered, displayUnit, needsConversion, groups, ret>>

\* 4. case "text", with the override for growth on insufficient data.
ExecBuildText ==
    /\ pc = "build"
    /\ spec.Intent = "text"
    /\ \E textData \in BuildText(spec, groups, filtered, ResolveMeasure(spec, cfg),
                                 displayUnit) :
          IF /\ spec.Aggregation = "growth"
             /\ textData.Growth # Nil
             /\ textData.Growth.Direction = "insufficient data"
          THEN /\ result' = Result("text",
                                   InsufficientReply(textData.Value, textData.Period),
                                   Nil, Nil, textData, displayUnit, needsConversion)
               /\ pc' = "done"
          ELSE /\ result' = Result("text", <<>>, Nil, Nil, textData,
                                   displayUnit, needsConversion)
               /\ pc' = "resolve"
    /\ UNCHANGED <<js, heap, call, view, spec, cfg, filtered, displayUnit, needsConversion, groups, ret>>

\* 4. default.
ExecBuildDefault ==
    /\ pc = "build"
    /\ spec.Intent \notin {"chart", "table", "text"}
    /\ \E textData \in BuildText(spec, groups, filtered, ResolveMeasure(spec, cfg),
                                 displayUnit) :
          result' = Result("text", <<>>, Nil, Nil, textData, displayUnit, needsConversion)
    /\ pc' = "resolve"
    /\ UNCHANGED <<js, heap, call, view, spec, cfg, filtered, displayUnit, needsConversion, groups, ret>>

\* 5. Resolve reply template placeholders.
ExecResolve ==
    /\ pc = "resolve"
    /\ \E reply \in ResolvePlaceholders(spec.Reply, groups, filtered,
                                        ResolveMeasure(spec, cfg), displayUnit) :
          result' = [result EXCEPT !.Reply = reply]
    /\ pc' = "done"
    /\ UNCHANGED <<js, heap, call, view, spec, cfg, filtered, displayUnit, needsConversion, groups, ret>>

NextExec ==
    \/ ExecEmptyView
    \/ ExecRatio
    \/ ExecApplyFilters
    \/ ExecNormalize
    \/ ExecGroup
    \/ ExecBuildChart
    \/ ExecBuildTable
    \/ ExecBuildText
    \/ ExecBuildDefault
    \/ ExecResolve

SpecExec == InitExec /\ [][NextExec]_vars

(***************************************************************************)
(* SpecNormalize: one call of NormalizeQuerySpec(spec).                    *)
(***************************************************************************)
NormalizeInputs ==
    { [QueryDefaults EXCEPT !.Intent = i, !.Aggregation = a, !.GroupBy = g,
                            !.Visualize = v, !.Title = t] :
        i \in {"chart", "table", "text", ""},
        a \in {"sum", "list", "max", "min", "growth", ""},
        g \in {<<>>, <<"field">>, <<"field", "month">>},
        v \in {"", "bar", "table", "text"},
        t \in {"", "Spend"} }

InitNormalize ==
    /\ view = NewSliceView(<<>>)
    /\ spec \in NormalizeInputs
    /\ cfg = DefaultConfig
    /\ pc = "call"
    /\ filtered = Nil
    /\ displayUnit = ""
    /\ needsConversion = FALSE
    /\ groups = <<>>
    /\ result = Nil
    /\ ret = Nil
    /\ js = Nil
    /\ heap = <<>>
    /\ call = Nil

CallNormalizeQuerySpec ==
    /\ pc = "call"
    /\ ret' = NormalizeQuerySpec(spec)
    /\ pc' = "ret"
    /\ UNCHANGED <<js, heap, call, view, spec, cfg, filtered, displayUnit, needsConversion, groups, result>>

SpecNormalize == InitNormalize /\ [][CallNormalizeQuerySpec]_vars

(***************************************************************************)
(* SpecTranslated: Execute on a query that either comes from the           *)
(* translator (pc = "parse": parseResponse runs first and ret keeps the    *)
(* query as unmarshalled) or is handed over by the caller as it is         *)
(* (pc = "start").                                                         *)
(***************************************************************************)
MaxTranslatedLen == 1

TranslatedQueries ==
    { [QueryDefaults EXCEPT !.Intent = i, !.Aggregation = ac[1], !.CompareFilters = ac[2],
                            !.Filters = f, !.GroupBy = g] :
        i \in {"chart", "table", "text", ""},
        ac \in ({"sum", "list", "max", "min", ""} \X {Nil})
               \cup {<<"ratio", [Dimensions |-> [field |-> <<"rent">>]]>>},
        f \in {NoFilters, [Dimensions |-> [field |-> <<"gas">>]]},
        g \in {<<>>, <<"field">>} }

InitTranslated ==
    /\ view \in {NewSliceView(rs) : rs \in SeqsUpTo(ExecRecords, MaxTranslatedLen)}
    /\ spec \in TranslatedQueries
    /\ cfg = DefaultConfig
    /\ pc \in {"parse", "start"}
    /\ filtered = Nil
    /\ displayUnit = ""
    /\ needsConversion = FALSE
    /\ groups = <<>>
    /\ result = Nil
    /\ ret = Nil
    /\ js = Nil
    /\ heap = <<>>
    /\ call = Nil

\* translator.parseResponse, then the caller passes result.QuerySpec on.
ParseResponse ==
    /\ pc = "parse"
    /\ ret' = [QuerySpec |-> spec]
    /\ spec' = parseResponse(spec)
    /\ pc' = "start"
    /\ UNCHANGED <<js, heap, call, view, cfg, filtered, displayUnit, needsConversion, groups, result>>

NextTranslated == ParseResponse \/ NextExec

SpecTranslated == InitTranslated /\ [][NextTranslated]_vars

(***************************************************************************)
(* SpecAggregate: the aggregators and groupBySingle called on a view whose *)
(* records may lack the measure key "amount" or the dimension key "field". *)
(***************************************************************************)
AggregateRecords ==
    { [Dimensions |-> d, Measures |-> m] :
        d \in PartialMaps([field |-> {"Rent", ""}]),
        m \in PartialMaps([amount |-> {5, 0, -3}]) }

InitAggregate ==
    /\ view \in {NewSliceView(rs) : rs \in SeqsUpTo(AggregateRecords, MaxViewLen)}
    /\ spec = [QueryDefaults EXCEPT !.Measure = "amount", !.GroupBy = <<"field">>]
    /\ cfg = DefaultConfig
    /\ pc = "call"
    /\ filtered = Nil
    /\ displayUnit = ""
    /\ needsConversion = FALSE
    /\ groups = <<>>
    /\ result = Nil
    /\ ret = Nil
    /\ js = Nil
    /\ heap = <<>>
    /\ call = Nil

CallAggregators ==
    /\ pc = "call"
    /\ ret' = [sum |-> SumMeasure(view, spec.Measure),
               avg |-> AvgMeasure(view, spec.Measure),
               max |-> MaxMeasure(view, spec.Measure),
               min |-> MinMeasure(view, spec.Measure)]
    /\ groups' = groupBySingle(view, spec.GroupBy[1])
    /\ pc' = "ret"
    /\ UNCHANGED <<js, heap, call, view, spec, cfg, filtered, displayUnit, needsConversion, result>>

SpecAggregate == InitAggregate /\ [][CallAggregators]_vars

(***************************************************************************)
(* Refine, step by step.  The caller builds a draft from a literal (or     *)
(* passes nil), Refine validates its arguments, calls the model once,      *)
(* parses the answer and applies it to a copy; afterwards the caller       *)
(* writes through the config it got back.  `call.literal` is the literal   *)
(* the caller built the draft from, `call.requests` counts the external    *)
(* calls made.                                                             *)
(***************************************************************************)
MaxDims == 2
MaxSuggestions == 2

\* The value reached from the *Config at address a: slices and maps read
\* through, nil currency as Nil.
ConfigValue(h, a) ==
    LET c == h[a]
    IN  [c EXCEPT
            !.Dimensions = [i \in DOMAIN Elems(h, c.Dimensions) |->
                [h[c.Dimensions][i] EXCEPT !.SampleValues = Elems(h, @)]],
            !.Measures = [i \in DOMAIN Elems(h, c.Measures) |->
                [h[c.Measures][i] EXCEPT !.Aggregations = Elems(h, @)]],
            !.SkippedColumns = Elems(h, @),
            !.Currency = IF @ = 0 THEN Nil ELSE [h[@] EXCEPT !.Rates = h[@]]]

\* &Config{...}: the heap a literal is built in, the config in the last cell.
NewConfig(lit) == NewCells(<<>>, lit)

RefineDimensions ==
    { [Key |-> k, DisplayName |-> k, Description |-> "", SampleValues |-> <<"a", "b">>,
       Parent |-> p, SortHint |-> ""] :
        k \in {"city", "region"}, p \in {"", "country"} }

RefineMeasure ==
    [Key |-> "amount", DisplayName |-> "amount", Description |-> "", Unit |-> "",
     IsCurrency |-> FALSE, Aggregations |-> <<"sum", "avg">>, DefaultAggregation |-> "sum"]

RefineLiterals ==
    { [Name |-> "draft", Version |-> "1", Description |-> "",
       DiscoveredFrom |-> "csv", DiscoveredAt |-> "2025-12-31",
       Dimensions |-> ds, Measures |-> <<RefineMeasure>>,
       SkippedColumns |-> <<[Column |-> "id", Reason |-> "identifier", Recoverable |-> FALSE]>>,
       Currency |-> cur, RefinedAt |-> "", RefinedBy |-> ""] :
        ds \in SeqsUpTo(RefineDimensions, MaxDims),
        cur \in {Nil, [Enabled |-> TRUE, CodeDimension |-> "currency",
                       BaseCurrency |-> "SGD", Rates |-> ("USD" :> 2)]} }

ColumnEnrichments ==
    { <<>>,
      << [Key |-> "city", DisplayName |-> "City", Description |-> "Where", Unit |-> "",
          SortHint |-> "A > B", DefaultAggregation |-> ""],
         [Key |-> "amount", DisplayName |-> "", Description |-> "", Unit |-> "currency",
          SortHint |-> "", DefaultAggregation |-> "median"] >>,
      << [Key |-> "amount", DisplayName |-> "", Description |-> "", Unit |-> "currency",
          SortHint |-> "", DefaultAggregation |-> "median"],
         [Key |-> "amount", DisplayName |-> "Amount", Description |-> "", Unit |-> "",
          SortHint |-> "", DefaultAggregation |-> "avg"] >> }

HierarchySuggestions ==
    { [Parent |-> p, Child |-> c, Reason |-> "r"] :
        p \in {"", "region", "state"}, c \in {"city", "region"} }

RefineEnrichments ==
    { [DatasetName |-> n, DatasetDescription |-> n, Enrichments |-> es,
       SuggestedHierarchies |-> hs, RecoverColumns |-> <<>>] :
        n \in {"", "Sales"}, es \in ColumnEnrichments,
        hs \in SeqsUpTo(HierarchySuggestions, MaxSuggestions) }

\* What the model answers: text that is no JSON, or the JSON of an enrichment.
RefineResponses ==
    { [json |-> FALSE] } \cup { [json |-> TRUE, value |-> e] : e \in RefineEnrichments }

\* Text that is no JSON is taken for an empty enrichment.
parseRefineResponse_AcceptAll(response) ==
    [enrichment |-> IF response.json THEN response.value
                    ELSE [DatasetName |-> "", DatasetDescription |-> "", Enrichments |-> <<>>,
                          SuggestedHierarchies |-> <<>>, RecoverColumns |-> <<>>],
     err |-> ""]

parseRefineResponse(response) ==
    IF response.json THEN [enrichment |-> response.value, err |-> ""]
    ELSE [enrichment |-> Nil, err |-> "failed to parse refine response"]

InitRefine ==
    /\ view = <<>>
    /\ spec = Nil
    /\ cfg = Nil
    /\ filtered = Nil
    /\ displayUnit = ""
    /\ needsConversion = FALSE
    /\ groups = <<>>
    /\ result = Nil
    /\ ret = Nil
    /\ js = Nil
    /\ pc = "refine"
    /\ \E key \in {"", "key"} :
          \/ /\ heap = <<>>
             /\ call = [draft |-> 0, literal |-> Nil, APIKey |-> key, requests |-> 0,
                        response |-> Nil, enrichment |-> Nil]
          \/ \E lit \in RefineLiterals :
                LET n == NewConfig(lit)
                IN  /\ heap = n.heap
                    /\ call = [draft |-> n.addr, literal |-> lit, APIKey |-> key,
                               requests |-> 0, response |-> Nil, enrichment |-> Nil]

RefineUnchanged ==
    UNCHANGED <<js, view, spec, cfg, filtered, displayUnit, needsConversion, groups, result>>

\* Refine up to the call: the two argument checks, the payload and the prompt
\* (which only read the draft).
RefineCheckArguments ==
    /\ pc = "refine"
    /\ IF call.draft = 0
       THEN /\ ret' = [config |-> 0, err |-> "draft schema is nil"]
            /\ pc' = "returned"
       ELSE IF call.APIKey = ""
       THEN /\ ret' = [config |-> 0, err |-> "API key is required for Smart Refine"]
            /\ pc' = "returned"
       ELSE /\ ret' = ret
            /\ pc' = "request"
    /\ UNCHANGED <<heap, call>>
    /\ RefineUnchanged

\* callRefineGemini: the request fails, or some text comes back.
CallRefineGemini ==
    /\ pc = "request"
    /\ \/ /\ call' = [call EXCEPT !.requests = @ + 1]
          /\ ret' = [config |-> call.draft, err |-> "smart refine AI call failed"]
          /\ pc' = "returned"
       \/ \E r \in RefineResponses :
              /\ call' = [call EXCEPT !.requests = @ + 1, !.response = r]
              /\ ret' = ret
              /\ pc' = "parse"
    /\ UNCHANGED heap
    /\ RefineUnchanged

ParseRefineResponse ==
    /\ pc = "parse"
    /\ LET p == parseRefineResponse(call.response)
       IN  IF p.err # ""
           THEN /\ ret' = [config |-> call.draft, err |-> "smart refine parse failed"]
                /\ pc' = "returned"
                /\ call' = call
           ELSE /\ ret' = ret
                /\ pc' = "apply"
                /\ call' = [call EXCEPT !.enrichment = p.enrichment]
    /\ UNCHANGED heap
    /\ RefineUnchanged

ApplyEnrichments ==
    /\ pc = "apply"
    /\ LET r == applyEnrichments(heap, call.draft, call.enrichment)
       IN  /\ heap' = r.heap
           /\ ret' = [config |-> r.addr, err |-> ""]
    /\ pc' = "returned"
    /\ UNCHANGED call
    /\ RefineUnchanged

\* The caller writes through the enriched config: an element of a sample
\* slice, of an aggregation slice, a skipped column, a rate, a dimension.
MutateEnriched ==
    /\ pc = "returned"
    /\ ret.err = ""
    /\ LET c == heap[ret.config]
       IN  \/ \E i \in DOMAIN heap[c.Dimensions] :
                 heap' = [heap EXCEPT ![heap[c.Dimensions][i].SampleValues][1] = "MUTATED"]
           \/ \E i \in DOMAIN heap[c.Measures] :
                 heap' = [heap EXCEPT ![heap[c.Measures][i].Aggregations][1] = "MUTATED"]
           \/ heap' = [heap EXCEPT ![c.SkippedColumns][1].Recoverable = TRUE]
           \/ /\ c.Currency # 0
              /\ heap' = [heap EXCEPT ![heap[c.Currency].Rates] = @ @@ ("EUR" :> 3)]
           \/ \E i \in DOMAIN heap[c.Dimensions] :
                 heap' = [heap EXCEPT ![c.Dimensions][i].Description = "MUTATED"]
    /\ pc' = "mutated"
    /\ UNCHANGED <<call, ret>>
    /\ RefineUnchanged

NextRefine ==
    \/ RefineCheckArguments
    \/ CallRefineGemini
    \/ ParseRefineResponse
    \/ ApplyEnrichments
    \/ MutateEnriched

SpecRefine == InitRefine /\ [][NextRefine]_vars

(***************************************************************************)
(* Discovery: detectType on its own, and DiscoverFromCSV over small        *)
(* three-column tables and over one-column tables of ten rows and more.    *)
(***************************************************************************)
MaxValues == 4
MaxTableRows == 3
MaxColumnRows == 12

TypeTexts == {"true", "1", "2025-11-01", "2025", "101", "PROJ-001"}

DiscoveryIdle ==
    /\ view = <<>>
    /\ spec = Nil
    /\ cfg = Nil
    /\ filtered = Nil
    /\ displayUnit = ""
    /\ needsConversion = FALSE
    /\ groups = <<>>
    /\ result = Nil
    /\ ret = Nil
    /\ js = Nil
    /\ heap = <<>>
    /\ pc = "call"

InitDetectType ==
    /\ DiscoveryIdle
    /\ \E vs \in SeqsUpTo(TypeTexts, MaxValues) : call = [values |-> vs]

CallDetectType ==
    /\ pc = "call"
    /\ ret' = detectType(call.values)
    /\ pc' = "done"
    /\ UNCHANGED <<js, heap, call, view, spec, cfg, filtered, displayUnit, needsConversion,
                   groups, result>>

SpecDetectType == InitDetectType /\ [][CallDetectType]_vars

TableRows ==
    { <<f, c, r>> : f \in {"a", "b", "c"}, c \in {"x", "x ", "y", "N/A"}, r \in {"p", "q"} }

InitDiscover ==
    /\ DiscoveryIdle
    /\ \E rows \in SeqsUpTo(TableRows, MaxTableRows) :
          call = [headers |-> <<"Field", "Category", "Region">>, rows |-> rows,
                  opt |-> [SampleSize |-> 1000, RecoverColumns |-> <<>>]]

\* A column of n rows holding the first k texts of a pool in turn; the last
\* row may be empty or hold a text no recognizer accepts.
LongColumn(pool, n, k, last) ==
    [i \in 1..n |->
        << CASE i = n /\ last = "empty" -> ""
             [] i = n /\ last = "text"  -> "memo"
             [] OTHER -> pool[((i - 1) % k) + 1] >>]

InitIdentifier ==
    /\ DiscoveryIdle
    /\ \E pool \in {IdTexts, IntTexts, DecimalTexts, DateTexts, BoolTexts},
          n \in 10..MaxColumnRows, last \in {"pool", "empty", "text"},
          size \in {0, 11}, recover \in {<<>>, <<"Issue Key">>} :
          \E k \in 1..n :
             call = [headers |-> <<"Issue Key">>, rows |-> LongColumn(pool, n, k, last),
                     opt |-> [SampleSize |-> size, RecoverColumns |-> recover]]

CallDiscoverFromCSV ==
    /\ pc = "call"
    /\ ret' = DiscoverFromCSV(call.headers, call.rows, call.opt)
    /\ pc' = "done"
    /\ UNCHANGED <<js, heap, call, view, spec, cfg, filtered, displayUnit, needsConversion,
                   groups, result>>

SpecDiscover == InitDiscover /\ [][CallDiscoverFromCSV]_vars

SpecIdentifier == InitIdentifier /\ [][CallDiscoverFromCSV]_vars

(***************************************************************************)
(* Package translator: GeminiTranslator.TranslateWithSummary.  The prompt  *)
(* is built, callGemini fails or returns a text, and the text is parsed.   *)
(* A text is the JSON of a TranslateResult, or a text that does not        *)
(* unmarshal into one and from which parseFallbackInterpretation may or    *)
(* may not recover an interpretation.  A QuerySpec carries its Confidence. *)
(***************************************************************************)
GenericInterpretation ==
    [VisualType |-> "table", Summary |-> "I'll try to show results for your query",
     Confidence |-> Half]

parseFallbackInterpretation(response) ==
    IF response.interpretation # Nil /\ response.interpretation.Summary # ""
    THEN response.interpretation
    ELSE GenericInterpretation

\* parseResponse on a text that unmarshals: defaults, confidence, normalization.
parseTranslateResult(r) ==
    LET c == IF r.QuerySpec.Confidence = Zero /\ RGt(r.Interpretation.Confidence, Zero)
             THEN r.Interpretation.Confidence ELSE r.QuerySpec.Confidence
    IN  [r EXCEPT !.QuerySpec = [parseResponse(r.QuerySpec) EXCEPT !.Confidence = c]]

FallbackQuerySpec ==
    [QueryDefaults @@ [Confidence |-> Zero] EXCEPT
        !.Intent = "table", !.Aggregation = "list", !.Visualize = "table",
        !.Title = "Query Results", !.Confidence = Half]

TranslateInterpretations ==
    { [VisualType |-> "bar", Summary |-> s, Confidence |-> c] :
        s \in {"", "Rent by month"}, c \in {Zero, Half} }

TranslateResponses ==
    { [json |-> FALSE, interpretation |-> i] : i \in {Nil} \cup TranslateInterpretations }
    \cup
    { [json |-> TRUE,
       value |-> [QuerySpec |-> [QueryDefaults @@ [Confidence |-> c] EXCEPT
                                    !.Intent = i, !.Aggregation = a, !.GroupBy = g],
                  Interpretation |-> t]] :
        c \in {Zero, Rat(9, 10)}, i \in {"chart", "table", ""}, a \in {"sum", "list", ""},
        g \in {<<>>, <<"field">>}, t \in TranslateInterpretations }

InitTranslate ==
    /\ view = <<>>
    /\ spec = Nil
    /\ cfg = Nil
    /\ filtered = Nil
    /\ displayUnit = ""
    /\ needsConversion = FALSE
    /\ groups = <<>>
    /\ result = Nil
    /\ ret = Nil
    /\ js = Nil
    /\ heap = <<>>
    /\ pc = "translate"
    /\ \E q \in {"rent in january", "percentage of rent"} :
          call = [query |-> q, requests |-> 0, failed |-> FALSE, response |-> Nil]

TranslateUnchanged ==
    UNCHANGED <<js, heap, view, spec, cfg, filtered, displayUnit, needsConversion, groups, result>>

\* TranslateWithSummary up to the return of callGemini.
TranslateCallGemini ==
    /\ pc = "translate"
    /\ \/ /\ call' = [call EXCEPT !.requests = @ + 1, !.failed = TRUE]
          /\ ret' = [result |-> Nil, err |-> "gemini API error"]
          /\ pc' = "returned"
       \/ \E r \in TranslateResponses :
              /\ call' = [call EXCEPT !.requests = @ + 1, !.response = r]
              /\ ret' = ret
              /\ pc' = "parse"
    /\ TranslateUnchanged

\* TranslateWithSummary from parseResponse on.
TranslateParseResponse ==
    /\ pc = "parse"
    /\ ret' = IF call.response.json
              THEN [result |-> parseTranslateResult(call.response.value), err |-> ""]
              ELSE [result |-> [QuerySpec |-> FallbackQuerySpec,
                                Interpretation |-> parseFallbackInterpretation(call.response)],
                    err |-> ""]
    /\ pc' = "returned"
    /\ UNCHANGED call
    /\ TranslateUnchanged

NextTranslate == TranslateCallGemini \/ TranslateParseResponse

SpecTranslate == InitTranslate /\ [][NextTranslate]_vars

(***************************************************************************)
(* The JavaScript wrapper: init(), _doInit() and ensureInit().             *)
(*                                                                         *)
(* JavaScript runs one job at a time.  `js.promises` holds every promise   *)
(* created, a promise being named by its index: the promise of an init()   *)
(* call (kind "init") or of a _doInit() call (kind "doInit"), with its     *)
(* state and the reactions registered on it while it is pending.           *)
(* `js.queue` is the microtask queue.  A job is                            *)
(*   resume:   the rest of init() after `await initPromise`;               *)
(*   thenable: the job that resolving an async function's promise with a   *)
(*             promise schedules, which calls then() on that promise;      *)
(*   settle:   the reaction then() registered, which gives the init()      *)
(*             promise the state of the promise it was resolved with.      *)
(* A caller may call init() between any two jobs.                           *)
(***************************************************************************)
MaxInitCalls == 4

Job(kind, c, p) == [kind |-> kind, call |-> c, awaited |-> p]

\* then() / await on promise p: the job is queued at once if p is settled
\* and kept as a reaction of p otherwise.
Subscribe(s, p, job) ==
    IF s.promises[p].state = "pending"
    THEN [s EXCEPT !.promises[p].reactions = Append(@, job)]
    ELSE [s EXCEPT !.queue = Append(@, job)]

\* init() without the test of initPromise: every call made before the first
\* initialization completed starts _doInit.
init_NoPendingTest(s, loads) ==
    LET c == Len(s.promises) + 1
    IN  IF s.initialized
        THEN [s EXCEPT !.promises = Append(@, [kind |-> "init", state |-> "fulfilled",
                                               reactions |-> <<>>])]
        ELSE Subscribe(
                 [s EXCEPT !.promises = @ \o
                               << [kind |-> "init", state |-> "pending", reactions |-> <<>>],
                                  [kind |-> "doInit",
                                   state |-> IF loads THEN "pending" ELSE "rejected",
                                   reactions |-> <<>>] >>,
                           !.initPromise = c + 1,
                           !.doInits = @ + 1],
                 c + 1, Job("resume", c, c + 1))

\* The synchronous part of a call of init(): up to its first await or its
\* return.  `loads` tells whether the synchronous part of _doInit (loading
\* wasm_exec.js and reading spektr.wasm) gets through or throws.
init(s, loads) ==
    LET c == Len(s.promises) + 1
    IN  IF s.initialized
        THEN [s EXCEPT !.promises = Append(@, [kind |-> "init", state |-> "fulfilled",
                                               reactions |-> <<>>])]
        ELSE IF s.initPromise # 0
        THEN [s EXCEPT !.promises = Append(@, [kind |-> "init", state |-> "pending",
                                               reactions |-> <<>>]),
                       !.queue = Append(@, Job("thenable", c, s.initPromise))]
        ELSE Subscribe(
                 [s EXCEPT !.promises = @ \o
                               << [kind |-> "init", state |-> "pending", reactions |-> <<>>],
                                  [kind |-> "doInit",
                                   state |-> IF loads THEN "pending" ELSE "rejected",
                                   reactions |-> <<>>] >>,
                           !.initPromise = c + 1,
                           !.doInits = @ + 1],
                 c + 1, Job("resume", c, c + 1))

\* One job of the microtask queue.
RunJob(s, job) ==
    CASE job.kind = "resume" ->
           IF s.promises[job.awaited].state = "fulfilled"
           THEN [s EXCEPT !.initialized = TRUE, !.promises[job.call].state = "fulfilled"]
           ELSE [s EXCEPT !.promises[job.call].state = "rejected"]
      [] job.kind = "thenable" ->
           Subscribe(s, job.awaited, Job("settle", job.call, job.awaited))
      [] job.kind = "settle" ->
           [s EXCEPT !.promises[job.call].state = s.promises[job.awaited].state]

InitWrapper ==
    /\ view = <<>>
    /\ spec = Nil
    /\ cfg = Nil
    /\ filtered = Nil
    /\ displayUnit = ""
    /\ needsConversion = FALSE
    /\ groups = <<>>
    /\ result = Nil
    /\ ret = "not called"
    /\ heap = <<>>
    /\ call = Nil
    /\ pc = "loaded"
    /\ js = [initialized |-> FALSE, initPromise |-> 0, doInits |-> 0,
             promises |-> <<>>, queue |-> <<>>]

WrapperUnchanged ==
    UNCHANGED <<view, spec, cfg, pc, filtered, displayUnit, needsConversion, groups, result,
                ret, heap, call>>

InitCalls == {c \in DOMAIN js.promises : js.promises[c].kind = "init"}

\* A caller calls init().
CallInit ==
    /\ Cardinality(InitCalls) < MaxInitCalls
    /\ \E loads \in BOOLEAN : js' = init(js, loads)
    /\ WrapperUnchanged

\* The promise of a _doInit() is settled: the engine signalled ready, or
\* compiling or instantiating the module failed.
SettleDoInit ==
    /\ \E p \in DOMAIN js.promises, outcome \in {"fulfilled", "rejected"} :
          /\ js.promises[p].kind = "doInit"
          /\ js.promises[p].state = "pending"
          /\ js' = [js EXCEPT !.promises[p].state = outcome,
                              !.promises[p].reactions = <<>>,
                              !.queue = @ \o js.promises[p].reactions]
    /\ WrapperUnchanged

RunMicrotask ==
    /\ js.queue # <<>>
    /\ js' = RunJob([js EXCEPT !.queue = Tail(@)], Head(js.queue))
    /\ WrapperUnchanged

\* A caller whose init() promise is fulfilled calls an API function, which
\* starts with ensureInit().
CallApi ==
    /\ \E c \in InitCalls : js.promises[c].state = "fulfilled"
    /\ ret' = IF js.initialized THEN "returned" ELSE "threw: Spektr not initialized"
    /\ UNCHANGED <<js, view, spec, cfg, pc, filtered, displayUnit, needsConversion, groups,
                   result, heap, call>>

NextWrapper == CallInit \/ SettleDoInit \/ RunMicrotask \/ CallApi

SpecWrapper == InitWrapper /\ [][NextWrapper]_vars

(***************************************************************************)
(* SpecGrouping: one call of GroupAndAggregate on a view of up to          *)
(* MaxGroupLen records, over every aggregation kind, with and without a    *)
(* recognized sort mode and a limit.                                       *)
(***************************************************************************)
MaxGroupLen == 3

GroupingKeys == {<<>>, <<"field">>, <<"field", "month">>, <<"month", "field", "year">>}

\* Every aggregation kind without sort and limit, and two kinds under every
\* sort mode and limit.
GroupingQueries ==
    { [QueryDefaults EXCEPT !.GroupBy = g, !.Aggregation = a] :
        g \in GroupingKeys,
        a \in {"sum", "count", "avg", "max", "min", "list", "none", "median"} }
    \cup
    { [QueryDefaults EXCEPT !.GroupBy = g, !.Aggregation = a, !.SortBy = s, !.Limit = l] :
        g \in GroupingKeys,
        a \in {"sum", "avg"},
        s \in {"", "value_desc", "newest"},
        l \in {0, 1, 2} }

InitGrouping ==
    /\ view \in {NewSliceView(rs) : rs \in SeqsUpTo(GroupRecords, MaxGroupLen)}
    /\ spec \in GroupingQueries
    /\ cfg = DefaultConfig
    /\ pc = "call"
    /\ filtered = Nil
    /\ displayUnit = ""
    /\ needsConversion = FALSE
    /\ groups = <<>>
    /\ result = Nil
    /\ ret = Nil
    /\ js = Nil
    /\ heap = <<>>
    /\ call = Nil

SpecGrouping == InitGrouping /\ [][CallGroupAndAggregate]_vars

(***************************************************************************)
(* SpecChart: GroupAndAggregate on a view of up to MaxChartLen records,    *)
(* then BuildChart on the groups it returned.                              *)
(***************************************************************************)
MaxChartLen == 3

ChartQueries ==
    { [QueryDefaults EXCEPT !.Intent = "chart", !.Aggregation = "sum", !.GroupBy = g,
                            !.Visualize = z] :
        g \in {<<"field">>, <<"field", "month">>, <<"month", "field">>},
        z \in {"", "line"} }

InitChart ==
    /\ view \in {NewSliceView(rs) : rs \in SeqsUpTo(GroupRecords, MaxChartLen)}
    /\ spec \in ChartQueries
    /\ cfg = DefaultConfig
    /\ pc = "group"
    /\ filtered = Nil
    /\ displayUnit = ""
    /\ needsConversion = FALSE
    /\ groups = <<>>
    /\ result = Nil
    /\ ret = Nil
    /\ js = Nil
    /\ heap = <<>>
    /\ call = Nil

ChartGroup ==
    /\ pc = "group"
    /\ \E gs \in GroupAndAggregate(view, spec.GroupBy, "amount", spec.Aggregation,
                                   spec.SortBy, spec.Limit) :
          groups' = gs
    /\ pc' = "build"
    /\ UNCHANGED <<js, heap, call, view, spec, cfg, filtered, displayUnit, needsConversion,
                   result, ret>>

CallBuildChart ==
    /\ pc = "build"
    /\ \E chart \in BuildChart(spec, groups) : ret' = chart
    /\ pc' = "ret"
    /\ UNCHANGED <<js, heap, call, view, spec, cfg, filtered, displayUnit, needsConversion,
                   groups, result>>

NextChart == ChartGroup \/ CallBuildChart

SpecChart == InitChart /\ [][NextChart]_vars

(***************************************************************************)
(* SpecRepeat: Execute called twice with the same query, view and options. *)
(* The first result is kept in `call` and the executor starts over.  The   *)
(* queries leave the sort mode empty, so that the only choices left to a   *)
(* run are the orders in which the code ranges over its maps.              *)
(***************************************************************************)
MaxRepeatLen == 2

RepeatRecords ==
    { [Dimensions |-> [field |-> f, month |-> m], Measures |-> [amount |-> a]] :
        f \in {"Rent", "Food"}, m \in {"q1", "q2", "Jan-2026"}, a \in {1, 2} }

RepeatQueries ==
    { [QueryDefaults EXCEPT !.Intent = "chart", !.Aggregation = "sum", !.GroupBy = g] :
        g \in {<<"field">>, <<"field", "month">>} }
    \cup
    { [QueryDefaults EXCEPT !.Intent = i, !.Aggregation = a, !.Reply = r] :
        i \in {"text", "table", ""},
        a \in {"sum", "growth"},
        r \in {<<>>, <<"{earliest_period}", " ", "{latest_period}", " ", "{period}">>} }
    \cup
    { [QueryDefaults EXCEPT !.Intent = "text", !.Aggregation = "ratio",
                            !.CompareFilters = c, !.Reply = <<"{numerator_label}">>] :
        c \in { [Dimensions |-> [field |-> <<"rent">>]],
                [Dimensions |-> [field |-> <<"rent">>, month |-> <<"q1">>]] } }

InitRepeat ==
    /\ view \in {NewSliceView(rs) : rs \in SeqsUpTo(RepeatRecords, MaxRepeatLen)}
    /\ spec \in RepeatQueries
    /\ cfg = DefaultConfig
    /\ pc = "start"
    /\ filtered = Nil
    /\ displayUnit = ""
    /\ needsConversion = FALSE
    /\ groups = <<>>
    /\ result = Nil
    /\ ret = Nil
    /\ js = Nil
    /\ heap = <<>>
    /\ call = Nil

\* The caller keeps the result and calls Execute again with the same
\* arguments.
ExecAgain ==
    /\ pc = "done"
    /\ call = Nil
    /\ call' = [first |-> result]
    /\ pc' = "start"
    /\ filtered' = Nil
    /\ displayUnit' = ""
    /\ needsConversion' = FALSE
    /\ groups' = <<>>
    /\ result' = Nil
    /\ UNCHANGED <<js, heap, view, spec, cfg, ret>>

NextRepeat == NextExec \/ ExecAgain

SpecRepeat == InitRepeat /\ [][NextRepeat]_vars

(***************************************************************************)
(* SpecHeaders: DiscoverFromCSV on tables of up to MaxTableRows rows whose *)
(* header row names three different columns, or names two columns alike up *)
(* to case, which toSnakeCase gives the same key.                          *)
(***************************************************************************)
HeaderRows == {<<"Field", "Category", "Region">>, <<"Field", "Category", "field">>}

InitHeaders ==
    /\ DiscoveryIdle
    /\ \E headers \in HeaderRows, rows \in SeqsUpTo(TableRows, MaxTableRows) :
          call = [headers |-> headers, rows |-> rows,
                  opt |-> [SampleSize |-> 1000, RecoverColumns |-> <<>>]]

SpecHeaders == InitHeaders /\ [][CallDiscoverFromCSV]_vars

(***************************************************************************)
(* What a caller reads of a view: per index, every dimension and measure.  *)
(***************************************************************************)
DimKeys == {"field", "location", "month", "currency"}
MeasureKeys == {"amount", "qty"}

Row(v, i) ==
    [dims |-> [k \in DimKeys |-> Dimension(v, i, k)],
     meas |-> [k \in MeasureKeys |-> Measure(v, i, k)]]

Rows(v) == [i \in 1..ViewLen(v) |-> Row(v, i)]

(***************************************************************************)
(* C1: ApplyFilters(view, F) returns a view no longer than the input; every *)
(* record it retains has, for every dimension of F with a non-empty        *)
(* allow-list, a lowercased value equal to the lowercased form of one of   *)
(* the allowed values (AND across dimensions, OR within one); and the      *)
(* retained records are exactly the input records that satisfy this, in    *)
(* their input order.                                                      *)
(***************************************************************************)
C1_Allowed(rec, F) ==
    \A d \in DOMAIN F :
        F[d] # <<>> =>
            \E k \in 1..Len(F[d]) : ToLower(MapStr(rec.Dimensions, d)) = ToLower(F[d][k])

C1_FilterCorrect ==
    pc = "ret" =>
        LET F    == spec.Filters.Dimensions
            Keep == {i \in 1..Len(view.records) : C1_Allowed(view.records[i], F)}
            Nth(j) == CHOOSE i \in Keep : Cardinality({x \in Keep : x < i}) = j - 1
        IN  /\ ViewLen(ret) <= ViewLen(view)
            /\ ViewLen(ret) = Cardinality(Keep)
            /\ \A j \in 1..ViewLen(ret) : Row(ret, j) = Row(view, Nth(j))

\* A two-dimension filter that keeps a record whose case differs from the
\* allowed value and drops another record.
C1_Witness ==
    /\ pc = "ret"
    /\ ViewLen(view) = 2
    /\ ViewLen(ret) = 1
    /\ DOMAIN spec.Filters.Dimensions = {"field", "location"}
    /\ spec.Filters.Dimensions["field"] = <<"Food", "RENT">>
    /\ spec.Filters.Dimensions["location"] = <<"sg">>
    /\ Dimension(ret, 1, "field") = "Rent"
    /\ Dimension(ret, 1, "location") = "SG"

C5_Raw == MapNum(view.records[ret.i].Measures, ret.key)
C5_Code == MapStr(view.records[ret.i].Dimensions, cfg.CurrencyDimension)

C5_MeasurePositiveRate ==
    (pc \in {"read", "reread"}) =>
        /\ ret.first =
              IF /\ ret.key = spec.Measure
                 /\ C5_Code # cfg.BaseCurrency
                 /\ C5_Code \in DOMAIN cfg.ExchangeRates
                 /\ cfg.ExchangeRates[C5_Code] > 0
              THEN [n |-> C5_Raw.n * cfg.ExchangeRates[C5_Code], d |-> 1]
              ELSE C5_Raw
        /\ (pc = "reread" => ret.second = ret.first)

\* A foreign-currency record read twice through a known positive rate.
C5_Witness ==
    /\ pc = "reread"
    /\ ret.key = "amount"
    /\ cfg.BaseCurrency = "SGD"
    /\ C5_Code = "USD"
    /\ "USD" \in DOMAIN cfg.ExchangeRates
    /\ cfg.ExchangeRates["USD"] = 2
    /\ C5_Raw = FromInt(-3)
    /\ ret.first = FromInt(-6)
    /\ ret.second = FromInt(-6)

\* C5 as stated: raw value x rate whenever the rate table has an entry.
C5_Original ==
    (pc \in {"read", "reread"}) =>
        ret.first =
            IF /\ ret.key = spec.Measure
               /\ C5_Code # cfg.BaseCurrency
               /\ C5_Code \in DOMAIN cfg.ExchangeRates
            THEN [n |-> C5_Raw.n * cfg.ExchangeRates[C5_Code], d |-> 1]
            ELSE C5_Raw

(***************************************************************************)
(* C7: growth over a view with at least two distinct month values: the     *)
(* measure is summed per month; earliest and latest are the totals of a    *)
(* month with the smallest and of a month with the largest parsed order;   *)
(* change = latest - earliest; change percent = change / earliest x 100    *)
(* (0 when the earliest total is 0); direction is increased when the       *)
(* percent is above +0.5, decreased when below -0.5, unchanged otherwise.  *)
(***************************************************************************)
\* The stored month and amount of record i, read off the input records.
C7_Month(i) == MapStr(view.records[i].Dimensions, "month")
C7_Amount(i) == IF "amount" \in DOMAIN view.records[i].Measures
                THEN view.records[i].Measures["amount"] ELSE 0
C7_Months == {C7_Month(i) : i \in 1..Len(view.records)} \ {""}

RECURSIVE C7_SumOver(_)
C7_SumOver(S) ==
    IF S = {} THEN 0
    ELSE LET i == CHOOSE x \in S : TRUE IN C7_Amount(i) + C7_SumOver(S \ {i})

C7_TotalOf(m) == C7_SumOver({i \in 1..Len(view.records) : C7_Month(i) = m})

C7_Growth ==
    (pc = "ret" /\ Cardinality(C7_Months) >= 2) =>
        /\ ret.Growth # Nil
        /\ LET g == ret.Growth
           IN  /\ \E e \in C7_Months, l \in C7_Months :
                     /\ \A m \in C7_Months :
                           /\ ParseMonthOrder(e) <= ParseMonthOrder(m)
                           /\ ParseMonthOrder(m) <= ParseMonthOrder(l)
                     /\ g.EarliestPeriod = <<e>> /\ g.LatestPeriod = <<l>>
                     /\ g.EarliestValue = [n |-> C7_TotalOf(e), d |-> 1]
                     /\ g.LatestValue = [n |-> C7_TotalOf(l), d |-> 1]
               /\ g.ChangeAmount.d = 1
               /\ g.ChangeAmount.n = g.LatestValue.n - g.EarliestValue.n
               /\ IF g.EarliestValue.n = 0
                  THEN g.ChangePercent = Zero
                  ELSE /\ g.ChangePercent.d > 0
                       /\ g.ChangePercent.n * g.EarliestValue.n
                             = g.ChangeAmount.n * 100 * g.ChangePercent.d
               /\ g.Direction =
                     IF 2 * g.ChangePercent.n > g.ChangePercent.d THEN "increased"
                     ELSE IF 2 * g.ChangePercent.n < -g.ChangePercent.d THEN "decreased"
                     ELSE "unchanged"

\* Three records over two months, two of them summed into the latest month,
\* and a change of exactly +0.5 percent, which the deadband calls unchanged.
C7_Witness ==
    /\ pc = "ret"
    /\ Len(view.records) = 3
    /\ C7_Months = {"Jan-2026", "Feb-2026"}
    /\ ret.Growth # Nil
    /\ ret.Growth.EarliestValue = FromInt(200)
    /\ ret.Growth.LatestValue = FromInt(201)
    /\ ret.Growth.ChangePercent = [n |-> 1, d |-> 2]
    /\ ret.Growth.Direction = "unchanged"

(***************************************************************************)
(* The paths of Execute, told from the state it ends in.                   *)
(***************************************************************************)
\* Execute returned through executeRatio.
RatioPath ==
    /\ pc = "done"
    /\ ViewLen(view) # 0
    /\ spec.Aggregation = "ratio"
    /\ spec.CompareFilters # Nil

\* Execute went past the filter stage with a non-empty filtered view.
MainPath ==
    /\ pc = "done"
    /\ filtered # Nil
    /\ ViewLen(filtered) # 0

\* The stored records of the input view that the allow-lists F admit.
Admitted(F) ==
    {i \in 1..Len(view.records) : C1_Allowed(view.records[i], F.Dimensions)}

\* The stored amount of record i of the input view.
StoredAmount(i) ==
    IF "amount" \in DOMAIN view.records[i].Measures
    THEN view.records[i].Measures["amount"] ELSE 0

RECURSIVE StoredSum(_)
StoredSum(S) ==
    IF S = {} THEN 0
    ELSE LET i == CHOOSE x \in S : TRUE IN StoredAmount(i) + StoredSum(S \ {i})

(***************************************************************************)
(* C2: for an empty view, and for a filter set that matches no record,     *)
(* Execute returns, for every aggregation kind (ratio included), a result  *)
(* with Success = true and Type = text whose reply states that there is no *)
(* data, respectively that no records match.                               *)
(***************************************************************************)
C2_NoDataOrNoMatch ==
    (pc = "done") =>
        /\ (ViewLen(view) = 0) =>
              /\ result.Success
              /\ result.Type = "text"
              /\ result.Reply = <<"No data available to analyze.">>
        /\ (ViewLen(view) # 0 /\ Admitted(spec.Filters) = {}) =>
              /\ result.Success
              /\ result.Type = "text"
              /\ result.Reply =
                    <<"No records match your query filters. Try broadening your search.">>

(***************************************************************************)
(* C3: every Result returned by Execute has exactly one of the payloads    *)
(* ChartConfig, TableData and Data populated, and it is the one named by   *)
(* Result.Type: chart, table, text respectively.                           *)
(***************************************************************************)
C3_ExactlyOnePayload ==
    (pc = "done") =>
        /\ (result.ChartConfig # Nil) <=> (result.Type = "chart")
        /\ (result.TableData # Nil) <=> (result.Type = "table")
        /\ (result.Data # Nil) <=> (result.Type = "text")
        /\ result.Type \in {"chart", "table", "text"}

(***************************************************************************)
(* C4: when every record of the filtered view carries the same currency    *)
(* code, Execute reports that code as DisplayUnit, reports ShouldConvert = *)
(* false, and every measure value read by grouping and building is the     *)
(* stored value, whatever base currency is configured and whether or not a *)
(* rate table is configured.                                               *)
(***************************************************************************)
\* The currency codes of the records the filters keep.
C4_Codes ==
    LET kept == ApplyFilters(view, spec.Filters)
    IN  {Dimension(kept, i, cfg.CurrencyDimension) : i \in 1..ViewLen(kept)}

C4_PassThrough ==
    (/\ MainPath
     /\ cfg.CurrencyDimension # ""
     /\ Cardinality(C4_Codes) = 1
     /\ "" \notin C4_Codes) =>
        /\ result.DisplayUnit \in C4_Codes
        /\ result.ShouldConvert = FALSE
        /\ LET kept == ApplyFilters(view, spec.Filters)
           IN  \A i \in 1..ViewLen(kept) : \A k \in MeasureKeys :
                  Measure(filtered, i, k) = Measure(kept, i, k)

(***************************************************************************)
(* C6: a ratio query filters the input view by the primary filters         *)
(* (denominator) and, independently, by the compare filters (numerator),   *)
(* sums the measure over each and reports percentage = numerator /         *)
(* denominator x 100, and 0 when the denominator sum is zero.              *)
(***************************************************************************)
C6_Numerator == StoredSum(Admitted(spec.CompareFilters))
C6_Denominator == StoredSum(Admitted(spec.Filters))

C6_RatioPercentage ==
    RatioPath =>
        /\ result.Data # Nil
        /\ result.Data.Ratio # Nil
        /\ result.Data.Ratio.NumeratorTotal = FromInt(C6_Numerator)
        /\ result.Data.Ratio.DenominatorTotal = FromInt(C6_Denominator)
        /\ result.Data.Ratio.Percentage =
              IF C6_Denominator = 0 THEN Zero
              ELSE Rat(C6_Numerator * 100, C6_Denominator)

(***************************************************************************)
(* C8: for a non-empty view whose records span fewer than two distinct     *)
(* non-empty month values, the growth result has direction "insufficient   *)
(* data", change amount 0 and change percent 0, and earliest value =       *)
(* latest value = the total of the measure over the view; a growth text    *)
(* query on such a view returns the fixed "need at least 2 months" reply   *)
(* and not the resolved template.                                          *)
(***************************************************************************)
\* The month values of the view the growth builder is given.
C8_Months == {Dimension(filtered, i, "month") : i \in 1..ViewLen(filtered)} \ {""}

RECURSIVE C8_TotalFrom(_)
C8_TotalFrom(i) ==
    IF i > ViewLen(filtered) THEN Zero
    ELSE RAdd(Row(filtered, i).meas["amount"], C8_TotalFrom(i + 1))

C8_GrowthInsufficient ==
    (/\ MainPath
     /\ spec.Aggregation = "growth"
     /\ spec.Intent \in {"text", ""}
     /\ Cardinality(C8_Months) < 2) =>
        /\ result.Type = "text"
        /\ result.Data # Nil
        /\ result.Data.Growth # Nil
        /\ result.Data.Growth.Direction = "insufficient data"
        /\ result.Data.Growth.ChangeAmount = Zero
        /\ result.Data.Growth.ChangePercent = Zero
        /\ result.Data.Growth.EarliestValue = C8_TotalFrom(1)
        /\ result.Data.Growth.LatestValue = C8_TotalFrom(1)
        /\ (spec.Intent = "text") =>
              /\ result.Reply =
                    <<"Your data shows", " ">> \o result.Data.Value \o <<" ", "for", " ">>
                    \o result.Data.Period
                    \o <<".", " ", "Need at least 2 months of data to show trends.">>
              /\ result.Data.Value = FormatCurrency(C8_TotalFrom(1), result.DisplayUnit)
              /\ result.Reply \notin ResolvePlaceholders(spec.Reply, groups, filtered,
                                                         "amount", displayUnit)

\* A growth text query with a template, over two records of the one month
\* Jan-2026 totalling 4, answered with the fixed reply.
C8_Witness ==
    /\ MainPath
    /\ spec.Aggregation = "growth"
    /\ spec.Intent = "text"
    /\ spec.Reply # <<>>
    /\ ViewLen(filtered) = 2
    /\ C8_Months = {"Jan-2026"}
    /\ result.Data.Growth.Direction = "insufficient data"
    /\ result.Data.Growth.EarliestValue = FromInt(4)
    /\ result.Reply[1] = "Your data shows"
    /\ result.Reply[Len(result.Reply)] = "Need at least 2 months of data to show trends."

(***************************************************************************)
(* C10: in the reply of every Execute result built from a non-empty        *)
(* template, on every path (plain, growth, ratio), no placeholder {name}   *)
(* remains, except that the unstripped text is returned when stripping     *)
(* would leave an empty string.                                            *)
(***************************************************************************)
\* Stripping the placeholders of text t, then spaces and trailing
\* punctuation, leaves nothing.
C10_StripsToNothing(t) ==
    \A k \in 1..Len(t) : t[k] \in placeholderRegex \cup {" ", ".", "-", EnDash, EmDash}

C10_NoPlaceholderRemains ==
    (pc = "done" /\ spec.Reply # <<>>) =>
        \/ \A k \in 1..Len(result.Reply) : result.Reply[k] \notin placeholderRegex
        \/ C10_StripsToNothing(result.Reply)

(***************************************************************************)
(* C11: within one Execute call the stages run in the order filter,        *)
(* currency normalization, group/aggregate, build, template resolution,    *)
(* each at most once (C11_StageOrder); and on every path, the ratio path   *)
(* included, what is grouped, built and substituted is read from the       *)
(* filtered-and-normalized view, never from the raw input view or from the *)
(* un-normalized filtered view (C11_StagesReadNormalizedView).             *)
(***************************************************************************)
\* The view the later stages are to read, for the records `kept` by a
\* filter: the currency-normalizing view when a base currency, a code
\* dimension and a rate table are configured and the codes differ.
C11_Normalized(kept) ==
    IF /\ cfg.BaseCurrency # "" /\ cfg.CurrencyDimension # ""
       /\ DOMAIN cfg.ExchangeRates # {}
       /\ Cardinality({Dimension(kept, i, cfg.CurrencyDimension) :
                          i \in 1..ViewLen(kept)} \ {""}) > 1
    THEN newCurrencyView(kept, ResolveMeasure(spec, cfg), cfg.CurrencyDimension,
                         cfg.BaseCurrency, cfg.ExchangeRates)
    ELSE kept

C11_StageOrder ==
    [][ \E t \in { <<"start", "done">>, <<"start", "normalize">>,
                   <<"normalize", "group">>, <<"group", "build">>,
                   <<"build", "resolve">>, <<"build", "done">>,
                   <<"resolve", "done">> } : pc = t[1] /\ pc' = t[2] ]_vars

C11_StagesReadNormalizedView ==
    LET measure == ResolveMeasure(spec, cfg)
        N == C11_Normalized(ApplyFilters(view, spec.Filters))
        C == C11_Normalized(ApplyFilters(view, spec.CompareFilters))
    IN  /\ (pc \in {"group", "build", "resolve"} \/ MainPath) =>
              Rows(filtered) = Rows(N)
        /\ (pc \in {"build", "resolve"} \/ MainPath) =>
              groups \in GroupAndAggregate(N, spec.GroupBy, measure, spec.Aggregation,
                                           spec.SortBy, spec.Limit)
        /\ (pc = "resolve" \/ MainPath) =>
              /\ (result.Type = "text") =>
                    result.Data \in BuildText(spec, groups, N, measure, displayUnit)
              /\ (result.Type = "table") =>
                    result.TableData = BuildTable(spec, groups, N, measure, displayUnit)
        /\ (MainPath /\ result.Data # Nil /\ result.Data.Growth = Nil) =>
              result.Reply \in ResolvePlaceholders(spec.Reply, groups, N, measure,
                                                   displayUnit)
        /\ RatioPath =>
              /\ result.Data.Ratio.DenominatorTotal = SumMeasure(N, measure)
              /\ result.Data.Ratio.NumeratorTotal = SumMeasure(C, measure)

(***************************************************************************)
(* C12: the query-repair rules are in force for every query the Executor   *)
(* runs: a list query gets a table result whatever its intent; a query     *)
(* with no group-by key never gets a chart result; a max/min query with no *)
(* group-by key gets a text result.  C12_Original states this of every     *)
(* query Execute is given; C12_RepairedQueries states it of the queries    *)
(* that went through parseResponse (and so through NormalizeQuerySpec),    *)
(* with the table result promised only when some record passes the         *)
(* filters.                                                                *)
(***************************************************************************)
\* The rules, for the query q as it was before any repair.
C12_Rules(q, tableDue) ==
    /\ (q.Aggregation = "list" /\ tableDue) => result.Type = "table"
    /\ (Len(q.GroupBy) = 0) => result.Type # "chart"
    /\ (q.Aggregation \in {"max", "min"} /\ Len(q.GroupBy) = 0) => result.Type = "text"

C12_RepairedQueries ==
    (pc = "done" /\ ret # Nil) => C12_Rules(ret.QuerySpec, Admitted(spec.Filters) # {})

\* The translator sent a list query with chart intent and no group-by key,
\* and Execute answered it with a table.
C12_Witness ==
    /\ pc = "done"
    /\ ret # Nil
    /\ ret.QuerySpec.Aggregation = "list"
    /\ ret.QuerySpec.Intent = "chart"
    /\ Len(ret.QuerySpec.GroupBy) = 0
    /\ ViewLen(view) = 1
    /\ result.Type = "table"
    /\ result.TableData # Nil

C12_Original ==
    (pc = "done") => C12_Rules(IF ret = Nil THEN spec ELSE ret.QuerySpec, TRUE)

(***************************************************************************)
(* C13: the output q of NormalizeQuerySpec satisfies the three rules at    *)
(* once (list implies table intent; chart intent implies a group-by key;   *)
(* max/min with no group-by key implies text intent); only Intent and      *)
(* Visualize may differ from the input; and normalizing a normalized query *)
(* changes nothing.                                                        *)
(***************************************************************************)
C13_Normalized ==
    (pc = "ret") =>
        /\ (ret.Aggregation = "list") => ret.Intent = "table"
        /\ (ret.Intent = "chart") => Len(ret.GroupBy) >= 1
        /\ (ret.Aggregation \in {"max", "min"} /\ Len(ret.GroupBy) = 0) =>
              ret.Intent = "text"
        /\ [ret EXCEPT !.Intent = spec.Intent, !.Visualize = spec.Visualize] = spec
        /\ NormalizeQuerySpec(ret) = ret

\* A list query with chart intent and no group-by key has become a table
\* query, with every other field as it was.
C13_Witness ==
    /\ pc = "ret"
    /\ spec.Aggregation = "list" /\ spec.Intent = "chart" /\ Len(spec.GroupBy) = 0
    /\ spec.Visualize = "bar" /\ spec.Title = "Spend"
    /\ ret.Intent = "table" /\ ret.Visualize = "table" /\ ret.Title = "Spend"

(***************************************************************************)
(* C14: a record that lacks a measure key has no value for it rather than  *)
(* the value 0: min, max and average of a measure are computed over the    *)
(* records that carry the key only; and a record that lacks a dimension    *)
(* key is not treated as having the value "" for it.                       *)
(***************************************************************************)
\* The records of the input view that carry the measure.
C14_Carriers == {i \in 1..Len(view.records) : "amount" \in DOMAIN view.records[i].Measures}

C14_AbsentIsNoValue ==
    (pc = "ret") =>
        /\ (C14_Carriers # {}) =>
              /\ ret.min.d = 1 /\ ret.max.d = 1
              /\ \E i \in C14_Carriers : view.records[i].Measures["amount"] = ret.min.n
              /\ \A i \in C14_Carriers : view.records[i].Measures["amount"] >= ret.min.n
              /\ \E i \in C14_Carriers : view.records[i].Measures["amount"] = ret.max.n
              /\ \A i \in C14_Carriers : view.records[i].Measures["amount"] <= ret.max.n
              /\ ret.avg = Rat(StoredSum(C14_Carriers), Cardinality(C14_Carriers))
        /\ \A k \in 1..Len(groups) :
              (groups[k].Key = "") =>
                 \A j \in 1..ViewLen(groups[k].View) :
                    "field" \in DOMAIN view.records[groups[k].View.indices[j]].Dimensions

(***************************************************************************)
(* Refinement: what Refine leaves of its draft and what it returns.        *)
(***************************************************************************)
Returned == pc \in {"returned", "mutated"}

ValidArguments == call.draft # 0 /\ call.APIKey # ""

\* C15: refinement never mutates its input draft: at every point of a call
\* of Refine, and after the caller has written through a slice or map of the
\* enriched config it got back, the draft still reads as the literal it was
\* built from -- sample values, aggregations, skipped columns and currency
\* rates included.
C15_DraftNeverMutated ==
    call.draft # 0 => ConfigValue(heap, call.draft) = call.literal

\* An enriched copy that differs from the draft has been returned and the
\* caller has overwritten a sample value of it.
C15_Witness ==
    /\ pc = "mutated"
    /\ call.enrichment.DatasetName = "Sales"
    /\ LET e == ConfigValue(heap, ret.config)
       IN  /\ e.Name = "Sales"
           /\ Len(e.Dimensions) = 2
           /\ e.Dimensions[2].SampleValues[1] = "MUTATED"
           /\ call.literal.Dimensions[2].SampleValues[1] = "a"
           /\ e.Currency # Nil

\* C16: a nil draft or an empty API key is rejected with an error and a nil
\* config before any external call; when the external call fails or its
\* answer cannot be parsed, Refine returns the draft it was given, unmodified,
\* with an error; it returns no error only with an enriched copy, a config
\* other than the draft that carries the enrichment and the refinement marks.
C16_RefineOutcomes ==
    Returned =>
        /\ ~ValidArguments =>
               ret.err # "" /\ ret.config = 0 /\ call.requests = 0
        /\ (ValidArguments /\ ret.err # "") =>
               /\ ret.config = call.draft
               /\ ConfigValue(heap, call.draft) = call.literal
               /\ call.requests = 1
               /\ call.response = Nil \/ ~call.response.json
        /\ (ret.err = "" /\ pc = "returned") =>
               /\ ValidArguments
               /\ call.requests = 1
               /\ call.response # Nil /\ call.response.json
               /\ ret.config \notin {0, call.draft}
               /\ LET e == ConfigValue(heap, ret.config)
                      g == call.response.value
                  IN  /\ e.RefinedBy = "gemini" /\ e.RefinedAt # ""
                      /\ e.Name = IF g.DatasetName # "" THEN g.DatasetName
                                  ELSE call.literal.Name
                      /\ Len(e.Dimensions) = Len(call.literal.Dimensions)
                      /\ \A i \in DOMAIN e.Dimensions :
                             e.Dimensions[i].Key = call.literal.Dimensions[i].Key
                      /\ \A i \in DOMAIN e.Measures :
                             LET ks == {j \in DOMAIN g.Enrichments :
                                           g.Enrichments[j].Key = e.Measures[i].Key}
                                 l  == CHOOSE j \in ks : \A k \in ks : k <= j
                             IN  ks # {} =>
                                   /\ e.Measures[i].IsCurrency =
                                          (g.Enrichments[l].Unit = "currency")
                                   /\ e.Measures[i].DefaultAggregation =
                                          IF g.Enrichments[l].DefaultAggregation = "avg"
                                          THEN "avg" ELSE "sum"

\* The answer was no JSON, and the draft came back with an error.
C16_Witness ==
    /\ pc = "returned"
    /\ ValidArguments
    /\ call.response # Nil /\ ~call.response.json
    /\ ret.err # ""
    /\ ret.config = call.draft
    /\ Len(call.literal.Dimensions) = 2

\* The parent a dimension has after the suggestions hs, by the stated rule,
\* where `first` picks the suggestion that counts among those naming the key.
ParentAfter(before, hs, counts(_)) ==
    LET named == {j \in DOMAIN hs : hs[j].Child = before.Key /\ counts(hs[j])}
    IN  IF before.Parent # "" THEN before.Parent
        ELSE IF named = {} THEN ""
        ELSE hs[CHOOSE j \in named : \A k \in named : j <= k].Parent

EnrichedParents(counts(_)) ==
    (pc = "returned" /\ ret.err = "") =>
        LET e == ConfigValue(heap, ret.config)
        IN  \A i \in DOMAIN e.Dimensions :
                e.Dimensions[i].Parent =
                    ParentAfter(call.literal.Dimensions[i],
                                call.enrichment.SuggestedHierarchies, counts)

HasParent(h) == h.Parent # ""

AnySuggestion(h) == TRUE

\* C17: a dimension whose draft parent is non-empty keeps it whatever the
\* suggestions say; a parentless dimension gets the parent of the first
\* suggestion that names it as child and has a non-empty parent, and stays
\* parentless when there is none.
C17_FirstNonEmptySuggestion == EnrichedParents(HasParent)

\* C17 as stated: of the suggestions naming a parentless child, the first
\* one takes effect, whatever its parent.
C17_Original == EnrichedParents(AnySuggestion)

\* "city" had no parent and two suggestions name it, "region" first; the
\* other dimension had the parent "country" and a suggestion names it too.
C17_Witness ==
    /\ pc = "returned" /\ ret.err = ""
    /\ Len(call.literal.Dimensions) = 2
    /\ call.literal.Dimensions[1].Key = "city" /\ call.literal.Dimensions[1].Parent = ""
    /\ call.literal.Dimensions[2].Key = "region"
    /\ call.literal.Dimensions[2].Parent = "country"
    /\ call.enrichment.SuggestedHierarchies =
           << [Parent |-> "region", Child |-> "city", Reason |-> "r"],
              [Parent |-> "state", Child |-> "city", Reason |-> "r"] >>
    /\ ConfigValue(heap, ret.config).Dimensions[1].Parent = "region"
    /\ ConfigValue(heap, ret.config).Dimensions[2].Parent = "country"

(***************************************************************************)
(* Discovery: identifier columns, the 80% rule, hierarchies.               *)
(***************************************************************************)
\* The rows DiscoverFromCSV samples.
Sampled ==
    SubSeq(call.rows, 1,
           IF call.opt.SampleSize > 0 /\ call.opt.SampleSize < Len(call.rows)
           THEN call.opt.SampleSize ELSE Len(call.rows))

\* Column c holds a non-null value in every sampled row, no two equal, and
\* more than ten rows were sampled.
AllDistinct(c) ==
    /\ Len(Sampled) > 10
    /\ \A i \in DOMAIN Sampled : ~IsNull(TrimSpace(Sampled[i][c]))
    /\ \A i, j \in DOMAIN Sampled :
           TrimSpace(Sampled[i][c]) = TrimSpace(Sampled[j][c]) => i = j

SkippedAsIdentifier(c) ==
    /\ \E s \in DOMAIN ret.config.SkippedColumns :
           /\ ret.config.SkippedColumns[s].Column = call.headers[c]
           /\ ~ret.config.SkippedColumns[s].Recoverable
    /\ \A d \in DOMAIN ret.config.Dimensions :
           ret.config.Dimensions[d].Key # toSnakeCase(call.headers[c])
    /\ \A m \in DOMAIN ret.config.Measures :
           ret.config.Measures[m].Key # toSnakeCase(call.headers[c])

IdentifierSkip(types) ==
    (pc = "done" /\ call.opt.RecoverColumns = <<>>) =>
        \A c \in DOMAIN call.headers :
            (AllDistinct(c) /\ detectType(ColumnValues(c, Sampled)) \in types)
            => SkippedAsIdentifier(c)

\* C18: with no recovery override, a column typed numeric or string that
\* holds a distinct non-null value in every one of more than 10 sampled rows
\* is among the skipped columns with recoverable = false and is neither a
\* dimension nor a measure.
C18_NumericOrStringIdentifier == IdentifierSkip({"typeNumeric", "typeString"})

\* C18 as stated: the same whatever type was detected for the column.
C18_Original == IdentifierSkip({"typeNumeric", "typeString", "typeDate", "typeBool"})

\* Eleven distinct issue keys were sampled out of twelve rows and the column
\* was skipped as an identifier.
C18_Witness ==
    /\ pc = "done"
    /\ call.opt.RecoverColumns = <<>>
    /\ Len(call.rows) = 12 /\ Len(Sampled) = 11
    /\ call.rows[12] = call.rows[1]
    /\ call.rows[1] = <<"PROJ-001">>
    /\ AllDistinct(1)
    /\ SkippedAsIdentifier(1)
    /\ ret.config.Dimensions = <<>>

\* C19: detectType returns boolean, date or numeric only if at least 80% of
\* the values match that type's recognizer, taking the first of boolean,
\* date, numeric that reaches 80%, and returns string if none does -- for
\* every number of values, 1 to 4 included.
C19_EightyPercent ==
    pc = "done" /\ call.values # <<>> =>
        LET n == Len(call.values)
            enough(recognizer(_)) == 5 * Matching(call.values, recognizer) >= 4 * n
        IN  ret = IF enough(isBool) THEN "typeBool"
                  ELSE IF enough(isDate) THEN "typeDate"
                  ELSE IF enough(isNumeric) THEN "typeNumeric"
                  ELSE "typeString"

\* Distinct non-null values of column c, and whether column p is determined
\* by column c: every value of c occurs with exactly one value of p.
DistinctValues(c) == Range(ColumnValues(c, Sampled))

Determines(c, p) ==
    \A v \in DistinctValues(c) :
        Cardinality({TrimSpace(Sampled[r][p]) : r \in
                        {r \in DOMAIN Sampled : /\ TrimSpace(Sampled[r][c]) = v
                                                 /\ ~IsNull(TrimSpace(Sampled[r][p]))}}) = 1

\* C20: the parent of every accepted dimension is an accepted dimension with
\* strictly fewer distinct values that it determines on the sampled rows and
\* that has the highest distinct-value count among those; with no such
\* dimension the parent is empty.
C20_ClosestParent ==
    (pc = "done" /\ ret.err = "") =>
        LET dims == ret.config.Dimensions
            col(d) == CHOOSE c \in DOMAIN call.headers : toSnakeCase(call.headers[c]) = dims[d].Key
            count(d) == Cardinality(DistinctValues(col(d)))
            candidates(d) == {e \in DOMAIN dims :
                                 /\ e # d
                                 /\ count(e) < count(d)
                                 /\ Determines(col(d), col(e))}
        IN  \A d \in DOMAIN dims :
                IF candidates(d) = {} THEN dims[d].Parent = ""
                ELSE \E e \in candidates(d) :
                        /\ dims[d].Parent = dims[e].Key
                        /\ \A f \in candidates(d) : count(f) <= count(e)

(***************************************************************************)
(* Translation failures.                                                   *)
(***************************************************************************)
TranslationFailed ==
    pc = "returned" /\ (call.failed \/ ~call.response.json)

\* C21: when translation fails -- the external call fails or its response
\* cannot be parsed -- the caller receives the generic fallback query (table
\* intent, list aggregation, confidence 0.5) together with a non-nil error.
C21_FallbackWithError ==
    TranslationFailed =>
        /\ ret.err # ""
        /\ ret.result # Nil
        /\ ret.result.QuerySpec.Intent = "table"
        /\ ret.result.QuerySpec.Aggregation = "list"
        /\ ret.result.QuerySpec.Confidence = Half

(***************************************************************************)
(* The JavaScript wrapper.                                                 *)
(***************************************************************************)
\* C22: over any number and interleaving of init() calls, _doInit is started
\* at most once, and an init() promise is fulfilled only once initialization
\* has completed -- the _doInit promise is fulfilled and `initialized` is
\* set -- so no API function called after it throws "not initialized".
C22_InitOnce ==
    js # Nil =>
        /\ js.doInits <= 1
        /\ \A c \in InitCalls :
               js.promises[c].state = "fulfilled" =>
                   /\ js.initialized
                   /\ js.promises[js.initPromise].state = "fulfilled"
        /\ ret # "threw: Spektr not initialized"

\* Four calls were made and all four promises are fulfilled after a single
\* _doInit; an API function called afterwards returned.
C22_Witness ==
    /\ js # Nil
    /\ js.doInits = 1
    /\ Len(js.promises) = 5
    /\ js.promises[2].kind = "doInit"
    /\ \A c \in DOMAIN js.promises : js.promises[c].state = "fulfilled"
    /\ js.queue = <<>>
    /\ ret = "returned"

(***************************************************************************)
(* C23: ApplyFilters called with a filter set that has no dimension, or    *)
(* whose every allow-list is empty, returns a view of the same length as   *)
(* the input with the same dimension and measure values at every index.    *)
(***************************************************************************)
C23_EmptyFilter ==
    \A d \in DOMAIN spec.Filters.Dimensions : spec.Filters.Dimensions[d] = <<>>

C23_IdentityOnEmptyFilter ==
    (pc = "ret" /\ C23_EmptyFilter) =>
        /\ ViewLen(ret) = ViewLen(view)
        /\ \A i \in 1..ViewLen(view) : Row(ret, i) = Row(view, i)

\* A filter naming two dimensions, both with an empty allow-list, applied to
\* a view of two different records.
C23_Witness ==
    /\ pc = "ret"
    /\ DOMAIN spec.Filters.Dimensions = {"field", "location"}
    /\ C23_EmptyFilter
    /\ ViewLen(view) = 2
    /\ Row(view, 1) # Row(view, 2)
    /\ Rows(ret) = Rows(view)

(***************************************************************************)
(* C24: grouping yields an ordered partition.  With one group-by key the   *)
(* groups appear in order of first appearance of each distinct dimension   *)
(* value and every record index of the view belongs to exactly one group,  *)
(* so the group counts sum to the view length; with two or more keys each  *)
(* primary group is partitioned in the same way by the second key into its *)
(* sub-groups, and keys beyond the second are ignored.  (Read off the      *)
(* result of GroupAndAggregate where it neither sorts nor limits.)         *)
(***************************************************************************)
C24_Members(g) == {g.View.indices[j] : j \in 1..Len(g.View.indices)}

C24_OrderedPartition(gs, v, dimension) ==
    /\ \A k \in 1..Len(gs) :
          /\ gs[k].View.kind = "sub"
          /\ gs[k].View.parent = v
          /\ gs[k].View.indices # <<>>
          /\ \A j \in 1..(Len(gs[k].View.indices) - 1) :
                gs[k].View.indices[j] < gs[k].View.indices[j + 1]
          /\ C24_Members(gs[k]) =
                {i \in 1..ViewLen(v) : getDimensionValue(v, i, dimension) = gs[k].Key}
          /\ gs[k].Count = Cardinality(C24_Members(gs[k]))
    /\ \A i \in 1..ViewLen(v) :
          Cardinality({k \in 1..Len(gs) : i \in C24_Members(gs[k])}) = 1
    /\ \A k, l \in 1..Len(gs) :
          k < l => gs[k].View.indices[1] < gs[l].View.indices[1]
    /\ SumCounts(gs, 1) = ViewLen(v)

C24_GroupingOnly ==
    pc = "ret" /\ Len(spec.GroupBy) >= 1 /\ spec.SortBy \notin SortModes /\ spec.Limit = 0

C24_Partition ==
    C24_GroupingOnly =>
        /\ C24_OrderedPartition(ret, view, spec.GroupBy[1])
        /\ \A k \in 1..Len(ret) :
              IF Len(spec.GroupBy) = 1 THEN ret[k].SubGroups = <<>>
              ELSE /\ C24_OrderedPartition(ret[k].SubGroups, ret[k].View, spec.GroupBy[2])
                   /\ SumCounts(ret[k].SubGroups, 1) = ret[k].Count
                   /\ \A j \in 1..Len(ret[k].SubGroups) :
                         ret[k].SubGroups[j].SubGroups = <<>>

\* Three keys over three records: the first and third record share the
\* month and form the first group, which the second key splits in two; the
\* third key has no effect.
C24_Witness ==
    /\ C24_GroupingOnly
    /\ spec.GroupBy = <<"month", "field", "year">>
    /\ ViewLen(view) = 3
    /\ Len(ret) = 2
    /\ ret[1].View.indices = <<1, 3>>
    /\ ret[2].View.indices = <<2>>
    /\ Len(ret[1].SubGroups) = 2
    /\ Dimension(view, 1, "field") # Dimension(view, 3, "field")

(***************************************************************************)
(* C25: after GroupAndAggregate every group and every sub-group has Count  *)
(* equal to the number of its records and Value equal to the aggregation   *)
(* of the measure over exactly its own records: sum, count (= Count), avg  *)
(* (= sum / Count), max, min; list and unrecognized kinds use the sum, and *)
(* the pass-through kind none leaves Value at 0.                           *)
(***************************************************************************)
C25_Amounts(g) == [i \in 1..ViewLen(g.View) |-> Measure(g.View, i, "amount")]

RECURSIVE C25_Total(_, _)
C25_Total(amounts, i) ==
    IF i > Len(amounts) THEN Zero ELSE RAdd(amounts[i], C25_Total(amounts, i + 1))

C25_Greatest(amounts) ==
    CHOOSE m \in Range(amounts) : \A x \in Range(amounts) : ~RGt(x, m)

C25_Least(amounts) ==
    CHOOSE m \in Range(amounts) : \A x \in Range(amounts) : ~RLt(x, m)

C25_Aggregated(g) ==
    LET amounts == C25_Amounts(g)
        n       == Len(amounts)
    IN  /\ n > 0
        /\ g.Count = n
        /\ g.Value =
              CASE spec.Aggregation = "count" -> FromInt(n)
                [] spec.Aggregation = "avg"   -> RDiv(C25_Total(amounts, 1), FromInt(n))
                [] spec.Aggregation = "max"   -> C25_Greatest(amounts)
                [] spec.Aggregation = "min"   -> C25_Least(amounts)
                [] spec.Aggregation = "none"  -> Zero
                [] OTHER                      -> C25_Total(amounts, 1)

C25_CountAndValue ==
    pc = "ret" =>
        \A k \in 1..Len(ret) :
            /\ C25_Aggregated(ret[k])
            /\ \A j \in 1..Len(ret[k].SubGroups) : C25_Aggregated(ret[k].SubGroups[j])

\* An average that is not a whole number, over a group of two records of
\* three, with sub-groups of one record each.
C25_Witness ==
    /\ pc = "ret"
    /\ spec.Aggregation = "avg"
    /\ ViewLen(view) = 3
    /\ \E k \in 1..Len(ret) :
          /\ ret[k].Count = 2
          /\ ret[k].Value = [n |-> 3, d |-> 2]
          /\ Len(ret[k].SubGroups) = 2
          /\ ret[k].SubGroups[1].Value # ret[k].SubGroups[2].Value

(***************************************************************************)
(* C26: GroupAndAggregate sorts before it limits.  With limit N > 0 the    *)
(* result is exactly the first N groups of the fully sorted group list     *)
(* (all groups when N = 0 or N is at least the group count), never the     *)
(* sorted form of the first N groups in grouping order; with an empty or   *)
(* unrecognized sort mode the grouping order is kept; sorting and limiting *)
(* apply to the top-level groups only (sub-groups stay as grouped).        *)
(***************************************************************************)
\* The aggregated groups in grouping order: the call without sort and limit.
C26_Grouped ==
    CHOOSE gs \in GroupAndAggregate(view, spec.GroupBy, "amount", spec.Aggregation, "", 0) :
        TRUE

C26_Kept(full) ==
    IF spec.Limit > 0 /\ spec.Limit < Len(full) THEN spec.Limit ELSE Len(full)

C26_SortThenLimit ==
    pc = "ret" =>
        LET full == C26_Grouped
            kept == C26_Kept(full)
        IN  /\ Len(ret) = kept
            /\ \E p \in Permutations(1..Len(full)) :
                  /\ \A k \in 1..(Len(full) - 1) :
                        spec.SortBy \in SortModes =>
                            ~SortLess(spec.SortBy, full[p[k + 1]], full[p[k]])
                  /\ \A k \in 1..kept : ret[k] = full[p[k]]
            /\ spec.SortBy \notin SortModes => ret = SubSeq(full, 1, kept)

\* Two groups, the second of the greater value, sorted by descending value
\* and limited to one: the result is the second group, which limiting first
\* would have dropped, with both of its sub-groups.
C26_Witness ==
    /\ pc = "ret"
    /\ spec.SortBy = "value_desc"
    /\ spec.Limit = 1
    /\ Len(C26_Grouped) = 2
    /\ RGt(C26_Grouped[2].Value, C26_Grouped[1].Value)
    /\ ret = <<C26_Grouped[2]>>
    /\ Len(ret[1].SubGroups) = 2

(***************************************************************************)
(* C27: for a two-level grouping in which at least one group has           *)
(* sub-groups, BuildChart emits exactly one series per distinct sub-group  *)
(* key; each series holds a point for exactly those primary groups that    *)
(* contain that sub-group key, in primary-group order, so that a missing   *)
(* sub-group value is an absent point and not a point with value 0.        *)
(***************************************************************************)
C27_TwoLevel == pc = "ret" /\ Len(spec.GroupBy) >= 2 /\ hasSubGroups(groups)

C27_SubKeys(g) == {g.SubGroups[j].Key : j \in 1..Len(g.SubGroups)}

\* The primary groups that contain the sub-group key, in primary-group order.
RECURSIVE C27_Holders(_, _)
C27_Holders(key, k) ==
    IF k > Len(groups) THEN <<>>
    ELSE (IF key \in C27_SubKeys(groups[k]) THEN <<k>> ELSE <<>>) \o C27_Holders(key, k + 1)

C27_PointsOfHolders(s) ==
    LET holders == C27_Holders(s.Name, 1)
    IN  /\ Len(s.Data) = Len(holders)
        /\ \A n \in 1..Len(holders) :
              LET g  == groups[holders[n]]
                  sg == CHOOSE x \in Range(g.SubGroups) : x.Key = s.Name
              IN  s.Data[n] = [Label |-> g.Label, Value |-> RoundTo2(sg.Value)]

C27_OneSeriesPerSubKey ==
    C27_TwoLevel =>
        /\ ret # Nil
        /\ {ret.Series[i].Name : i \in 1..Len(ret.Series)} =
              UNION {C27_SubKeys(groups[k]) : k \in 1..Len(groups)}
        /\ \A i, j \in 1..Len(ret.Series) :
              ret.Series[i].Name = ret.Series[j].Name => i = j
        /\ \A i \in 1..Len(ret.Series) : C27_PointsOfHolders(ret.Series[i])

\* What the code emits instead: every series has a point for every primary
\* group, with value 0 where the group has no sub-group of the series' key.
C27_PointPerPrimaryGroup ==
    C27_TwoLevel =>
        /\ {ret.Series[i].Name : i \in 1..Len(ret.Series)} =
              UNION {C27_SubKeys(groups[k]) : k \in 1..Len(groups)}
        /\ \A i, j \in 1..Len(ret.Series) :
              ret.Series[i].Name = ret.Series[j].Name => i = j
        /\ \A i \in 1..Len(ret.Series) :
              /\ Len(ret.Series[i].Data) = Len(groups)
              /\ \A k \in 1..Len(groups) :
                    /\ ret.Series[i].Data[k].Label = groups[k].Label
                    /\ ret.Series[i].Name \notin C27_SubKeys(groups[k]) =>
                          ret.Series[i].Data[k].Value = Zero

\* Two primary groups, the second without the first's sub-group key, and a
\* series for that key of two points, the second of value 0.
C27_ZeroPoint ==
    /\ C27_TwoLevel
    /\ Len(groups) = 2
    /\ \E i \in 1..Len(ret.Series) :
          /\ ret.Series[i].Name \in C27_SubKeys(groups[1])
          /\ ret.Series[i].Name \notin C27_SubKeys(groups[2])
          /\ Len(ret.Series[i].Data) = 2
          /\ ret.Series[i].Data[2].Value = Zero

(***************************************************************************)
(* C28: a ratio result's totals are expressed in its DisplayUnit.  When    *)
(* currency normalization is configured and the matched records span       *)
(* several currency codes, the numerator and denominator sums are taken    *)
(* over the converted values, exactly as the totals of a non-ratio query.  *)
(***************************************************************************)
C28_Configured ==
    cfg.BaseCurrency # "" /\ cfg.CurrencyDimension # "" /\ cfg.ExchangeRates # <<>>

\* The currency codes of the records either filter set of the query admits.
C28_MatchedCodes ==
    {MapStr(view.records[i].Dimensions, cfg.CurrencyDimension) :
        i \in Admitted(spec.Filters) \cup Admitted(spec.CompareFilters)}

\* The total of the measure over a view as a non-ratio query takes it: over
\* the view wrapped for conversion to the base currency.
C28_ConvertedTotal(v) ==
    SumMeasure(newCurrencyView(v, ResolveMeasure(spec, cfg), cfg.CurrencyDimension,
                               cfg.BaseCurrency, cfg.ExchangeRates),
               ResolveMeasure(spec, cfg))

C28_RatioTotalsInDisplayUnit ==
    (RatioPath /\ C28_Configured /\ Cardinality(C28_MatchedCodes) >= 2) =>
        /\ result.DisplayUnit = cfg.BaseCurrency
        /\ result.Data.Ratio.NumeratorTotal =
              C28_ConvertedTotal(ApplyFilters(view, spec.CompareFilters))
        /\ result.Data.Ratio.DenominatorTotal =
              C28_ConvertedTotal(ApplyFilters(view, spec.Filters))

\* What the code reports instead: the sums of the stored values, labelled
\* with the base currency.
C28_RatioTotalsUnconverted ==
    (RatioPath /\ C28_Configured /\ Cardinality(C28_MatchedCodes) >= 2) =>
        /\ result.DisplayUnit = cfg.BaseCurrency
        /\ result.Data.Ratio.NumeratorTotal = FromInt(StoredSum(Admitted(spec.CompareFilters)))
        /\ result.Data.Ratio.DenominatorTotal = FromInt(StoredSum(Admitted(spec.Filters)))

(***************************************************************************)
(* C29: Execute is deterministic.  Two calls with the same query, the same *)
(* view contents and the same options return identical results -- reply,   *)
(* chart series order and colors, growth earliest and latest periods and   *)
(* period label, ratio labels -- whatever the order in which maps are      *)
(* iterated and whatever months tie in parsed order.                       *)
(***************************************************************************)
C29_SecondReturned == pc = "done" /\ call # Nil

C29_Deterministic == C29_SecondReturned => result = call.first

\* Two calls whose charts list the same series in different orders, and so
\* with different colors.
C29_SeriesOrderDiffers ==
    /\ C29_SecondReturned
    /\ result.Type = "chart"
    /\ call.first.Type = "chart"
    /\ result.ChartConfig.Series[1].Name # call.first.ChartConfig.Series[1].Name
    /\ result.ChartConfig.Series[1].Color = call.first.ChartConfig.Series[1].Color

\* Two growth results over the same two months of equal parsed order, with
\* earliest and latest exchanged.
C29_GrowthPeriodsDiffer ==
    /\ C29_SecondReturned
    /\ spec.Aggregation = "growth"
    /\ result.Data # Nil
    /\ call.first.Data # Nil
    /\ result.Data.Growth # Nil
    /\ call.first.Data.Growth # Nil
    /\ result.Data.Growth.EarliestPeriod = call.first.Data.Growth.LatestPeriod
    /\ result.Data.Growth.EarliestPeriod # call.first.Data.Growth.EarliestPeriod
    /\ result.Reply # call.first.Reply

\* Two ratio results whose numerator labels name the filter's dimensions in
\* different orders.
C29_RatioLabelDiffers ==
    /\ C29_SecondReturned
    /\ spec.Aggregation = "ratio"
    /\ result.Data # Nil
    /\ call.first.Data # Nil
    /\ result.Data.Ratio.NumeratorLabel # call.first.Data.Ratio.NumeratorLabel

(***************************************************************************)
(* C30: in every schema returned by DiscoverFromCSV the parent links are   *)
(* well-formed: each non-empty parent is the key of another dimension of   *)
(* the same schema that has strictly fewer distinct sampled values than    *)
(* the child, so no dimension is its own parent and following parent links *)
(* from any dimension ends without a cycle.                                *)
(***************************************************************************)
\* The columns with a sampled value, which are the columns that become
\* dimensions here, and the column the d-th dimension was made from.
C30_DimensionColumns == {c \in DOMAIN call.headers : DistinctValues(c) # {}}

C30_ColumnOf(d) ==
    CHOOSE c \in C30_DimensionColumns :
        Cardinality({e \in C30_DimensionColumns : e < c}) = d - 1

C30_Count(d) == Cardinality(DistinctValues(C30_ColumnOf(d)))

\* The keys reached from the keys K by one parent link, and by up to n links.
C30_Parents(K) ==
    {ret.config.Dimensions[e].Parent :
        e \in {x \in DOMAIN ret.config.Dimensions :
                  /\ ret.config.Dimensions[x].Key \in K
                  /\ ret.config.Dimensions[x].Parent # ""}}

RECURSIVE C30_Ancestors(_, _)
C30_Ancestors(K, n) ==
    IF n = 0 THEN {} ELSE C30_Parents(K) \cup C30_Ancestors(C30_Parents(K), n - 1)

C30_Discovered == pc = "done" /\ ret.err = ""

C30_ParentsWellFormed ==
    C30_Discovered =>
        LET dims == ret.config.Dimensions
        IN  /\ Len(dims) = Cardinality(C30_DimensionColumns)
            /\ \A d \in DOMAIN dims :
                  /\ dims[d].Key = toSnakeCase(call.headers[C30_ColumnOf(d)])
                  /\ dims[d].Parent # "" =>
                        \E e \in DOMAIN dims \ {d} :
                            /\ dims[e].Key = dims[d].Parent
                            /\ C30_Count(e) < C30_Count(d)
                  /\ dims[d].Parent # dims[d].Key
                  /\ dims[d].Key \notin C30_Ancestors({dims[d].Key}, Len(dims))

\* Two dimensions of one key, the first made from a column of a single
\* value, and both given a parent of a single value.
C30_ShadowedDimension ==
    /\ C30_Discovered
    /\ Len(ret.config.Dimensions) = 3
    /\ ret.config.Dimensions[1].Key = ret.config.Dimensions[3].Key
    /\ ret.config.Dimensions[1].Parent = ret.config.Dimensions[2].Key
    /\ ret.config.Dimensions[3].Parent = ret.config.Dimensions[2].Key
    /\ C30_Count(1) = 1
    /\ C30_Count(2) = 1

\* With three different keys the links are well-formed.
C30_DistinctKeys ==
    \A c, e \in DOMAIN call.headers :
        toSnakeCase(call.headers[c]) = toSnakeCase(call.headers[e]) => c = e

C30_WellFormedForDistinctKeys == C30_DistinctKeys => C30_ParentsWellFormed

\* A chain of two links: the first dimension's parent is the second, whose
\* parent is the third.
C30_Chain ==
    /\ C30_Discovered
    /\ C30_DistinctKeys
    /\ Len(ret.config.Dimensions) = 3
    /\ ret.config.Dimensions[1].Parent = ret.config.Dimensions[2].Key
    /\ ret.config.Dimensions[2].Parent = ret.config.Dimensions[3].Key
====
